---- MODULE Spec2Model ----
(***************************************************************************)
(* State-machine model of the game-theory simulation core of               *)
(* als141/openai-multiagent: AgentState (src/src/agents/base_agent.py),    *)
(* RewardMatrix / PayoffCalculator (src/src/game_theory/payoff.py), the    *)
(* three games (src/src/game_theory/games.py) and the GameCoordinator      *)
(* (src/src/agents/coordinator.py).                                        *)
(*                                                                         *)
(* Numbers.  The program computes with Python floats.  The model keeps     *)
(* trust scores as integers in units of 1/TrustScale and payoffs as        *)
(* integers in units of 1/PayScale; reputation is kept as an exact         *)
(* fraction.  The parameter sets below are chosen so that every division   *)
(* the games perform on payoffs is exact in these units.                   *)
(***************************************************************************)
EXTENDS Integers, Sequences, FiniteSets, TLC

VARIABLES
    agents,      \* GameCoordinator.agents: name -> AgentState (BaseGameAgent.state)
    registry,    \* list(GameCoordinator.agents.keys()): the names in registration order
    games,       \* GameCoordinator.games: game type -> the game object's fields
    match,       \* frame of the running play_full_game / play_round call
    tour,        \* frame of the running run_tournament / run_experiment call
    providers,   \* name -> the kind of DecisionProvider behind that agent's make_decision
    lastCall,    \* the most recent top-level call: its arguments and what it returned
    ncalls,      \* number of calls made so far (bounds the exploration)
    strategies,  \* class name -> the fields of one BaseStrategy object and the calls made on it
    waiting      \* frames of the play_full_game calls suspended at an await while match runs

vars == <<agents, registry, games, match, tour, providers, lastCall, ncalls, strategies,
          waiting>>

(***************************************************************************)
(* Bounds of the exploration                                               *)
(***************************************************************************)
MaxTrustCalls == 3
MaxTopCalls == 2
TourRounds == 2
TourReps == 2

(***************************************************************************)
(* Fixed-point units                                                       *)
(***************************************************************************)
TrustScale == 10 * 10 * 10 * 10 * 10 * 10 * 10 * 10
One        == TrustScale
Half       == TrustScale \div 2
Tenth      == TrustScale \div 10

Min(x, y) == IF x <= y THEN x ELSE y
Max(x, y) == IF x >= y THEN x ELSE y

(***************************************************************************)
(* AgentAction (types.py) and its cooperative class                        *)
(***************************************************************************)
COOPERATE          == "cooperate"
DEFECT             == "defect"
SHARE_KNOWLEDGE    == "share_knowledge"
WITHHOLD_KNOWLEDGE == "withhold_knowledge"
AgentAction == {COOPERATE, DEFECT, SHARE_KNOWLEDGE, WITHHOLD_KNOWLEDGE}

\* `action in [AgentAction.COOPERATE, AgentAction.SHARE_KNOWLEDGE]`
IsCooperative(action) == action \in {COOPERATE, SHARE_KNOWLEDGE}

(***************************************************************************)
(* Names                                                                   *)
(***************************************************************************)
Names  == {"a", "b", "c"}
PUBLIC == "public"
PeerIds == Names \cup {PUBLIC}

(***************************************************************************)
(* AgentState                                                              *)
(***************************************************************************)
\* a Python dict with no entries
EmptyDict == [k \in {} |-> 0]

\* AgentState(): the dataclass defaults.  reputation 0.5 is the fraction 1/2.
FreshAgentState ==
    [ trust_scores        |-> EmptyDict,
      knowledge_base      |-> << >>,
      cooperation_history |-> << >>,
      payoff_history      |-> << >>,
      reputation          |-> <<1, 2>> ]

\* decay_rate is given in tenths: d stands for d/10, so 1.0 - decay_rate is (10-d)/10.
DefaultDecay == 1
DecayRates   == {0, 1, 5}

\* mutant: the score of the named peer is not clamped
UpdateTrustUnclamped(ts, agent_id, cooperation, d) ==
    LET t0 == [p \in DOMAIN ts \cup {agent_id} |->
                  IF p \in DOMAIN ts THEN ts[p] ELSE Half]
        s1 == IF cooperation THEN t0[agent_id] + Tenth
                             ELSE t0[agent_id] - 2 * Tenth
    IN  [p \in DOMAIN t0 |->
            IF p = agent_id THEN s1 ELSE (t0[p] * (10 - d)) \div 10]

\* mutant: the decay loop does not skip the named peer
UpdateTrustDecayAll(ts, agent_id, cooperation, d) ==
    LET t0 == [p \in DOMAIN ts \cup {agent_id} |->
                  IF p \in DOMAIN ts THEN ts[p] ELSE Half]
        s1 == IF cooperation THEN Min(One, t0[agent_id] + Tenth)
                             ELSE Max(0, t0[agent_id] - 2 * Tenth)
    IN  [p \in DOMAIN t0 |->
            IF p = agent_id THEN (s1 * (10 - d)) \div 10
                            ELSE (t0[p] * (10 - d)) \div 10]

\* AgentState.update_trust(agent_id, cooperation, decay_rate)
UpdateTrust(ts, agent_id, cooperation, d) ==
    LET \* if agent_id not in self.trust_scores: self.trust_scores[agent_id] = 0.5
        t0 == [p \in DOMAIN ts \cup {agent_id} |->
                  IF p \in DOMAIN ts THEN ts[p] ELSE Half]
        s1 == IF cooperation THEN Min(One, t0[agent_id] + Tenth)
                             ELSE Max(0, t0[agent_id] - 2 * Tenth)
    IN  \* for agent in self.trust_scores: if agent != agent_id: *= (1.0 - decay_rate)
        [p \in DOMAIN t0 |->
            IF p = agent_id THEN s1 ELSE (t0[p] * (10 - d)) \div 10]

GetTrustScore(st, agent_id) ==
    IF agent_id \in DOMAIN st.trust_scores THEN st.trust_scores[agent_id] ELSE Half

(***************************************************************************)
(* Payoff units and sequence helpers                                       *)
(***************************************************************************)
PayScale == 6 * 10
ReputationWindow == 10
ReputationDivisor == 5

RECURSIVE SumSeq(_)
SumSeq(s) == IF s = << >> THEN 0 ELSE Head(s) + SumSeq(Tail(s))

RECURSIVE GCD(_, _)
GCD(x, y) == IF y = 0 THEN x ELSE GCD(y, x % y)

\* s[-n:]
LastN(s, n) == IF Len(s) <= n THEN s ELSE SubSeq(s, Len(s) - n + 1, Len(s))

\* max(0.0, min(1.0, avg_payoff / 5.0)) as a fraction in lowest terms, where
\* avg_payoff = sum(payoff_history[-10:]) / min(10, len(payoff_history))
Reputation(payoff_history) ==
    LET w   == LastN(payoff_history, ReputationWindow)
        num == SumSeq(w)
        den == Min(ReputationWindow, Len(payoff_history)) * ReputationDivisor * PayScale
        g   == GCD(num, den)
    IN  IF num <= 0 THEN <<0, 1>>
        ELSE IF num >= den THEN <<1, 1>>
        ELSE <<num \div g, den \div g>>

\* mutant: update_state rebuilds the histories from the current round only
UpdateStateForgetful(st, opponent_id, opponent_action, payoff, my_action) ==
    [ st EXCEPT
        !.trust_scores        = UpdateTrust(st.trust_scores, opponent_id,
                                            IsCooperative(opponent_action), DefaultDecay),
        !.cooperation_history = << <<opponent_id, opponent_action>> >>,
        !.payoff_history      = << payoff >>,
        !.reputation          = Reputation(<< payoff >>) ]

\* BaseGameAgent.update_state(opponent_id, opponent_action, payoff, my_action)
UpdateState(st, opponent_id, opponent_action, payoff, my_action) ==
    LET ph == Append(st.payoff_history, payoff)
    IN  [ st EXCEPT
            !.trust_scores        = UpdateTrust(st.trust_scores, opponent_id,
                                                IsCooperative(opponent_action), DefaultDecay),
            !.cooperation_history = Append(st.cooperation_history,
                                           <<opponent_id, opponent_action>>),
            !.payoff_history      = ph,
            !.reputation          = Reputation(ph) ]

InSeq(x, s) == \E i \in 1..Len(s) : s[i] = x

\* BaseGameAgent.share_knowledge(knowledge): append every item not yet in the base
RECURSIVE AddKnowledge(_, _)
AddKnowledge(kb, items) ==
    IF items = << >> THEN kb
    ELSE AddKnowledge(IF InSeq(Head(items), kb) THEN kb ELSE Append(kb, Head(items)),
                      Tail(items))

\* mutant: the transfer is not applied
ShareKnowledgeLost(st, items) == st

\* BaseGameAgent.share_knowledge(knowledge)
ShareKnowledge(st, items) ==
    [st EXCEPT !.knowledge_base = AddKnowledge(st.knowledge_base, items)]

(***************************************************************************)
(* RewardMatrix and the game objects                                       *)
(***************************************************************************)
PRISONERS_DILEMMA == "prisoners_dilemma"
PUBLIC_GOODS      == "public_goods"
KNOWLEDGE_SHARING == "knowledge_sharing"
GameType == {PRISONERS_DILEMMA, PUBLIC_GOODS, KNOWLEDGE_SHARING}

\* RewardMatrix.prisoner_dilemma()
StandardMatrix ==
    [ cooperate_cooperate |-> <<3, 3>>,
      cooperate_defect    |-> <<0, 5>>,
      defect_cooperate    |-> <<5, 0>>,
      defect_defect       |-> <<1, 1>> ]

\* ExperimentConfig.reward_matrix = None: no custom matrix
NoMatrix == [none |-> TRUE]

\* PublicGoodsGame(multiplier=2.0, endowment=10.0); the multiplier is kept in tenths
DefaultMultiplier10 == 20
DefaultEndowment    == 10
\* KnowledgeSharingGame(knowledge_value=2.0, sharing_cost=0.5), in payoff units
DefaultKnowledgeValue == 2 * PayScale
DefaultSharingCost    == PayScale \div 2

\* PrisonersDilemma.__init__, PublicGoodsGame.__init__, KnowledgeSharingGame.__init__
NewGame(g, m10, e) ==
    CASE g = PRISONERS_DILEMMA ->
            [ round_number |-> 0, results_history |-> << >>,
              reward_matrix |-> StandardMatrix, game_history |-> << >> ]
      [] g = PUBLIC_GOODS ->
            [ round_number |-> 0, results_history |-> << >>,
              multiplier10 |-> m10, endowment |-> e, contribution_history |-> << >> ]
      [] g = KNOWLEDGE_SHARING ->
            [ round_number |-> 0, results_history |-> << >>,
              knowledge_value |-> DefaultKnowledgeValue,
              sharing_cost |-> DefaultSharingCost ]

\* GameCoordinator._initialize_games
InitializeGames == [g \in GameType |-> NewGame(g, DefaultMultiplier10, DefaultEndowment)]

\* dict[k] = v
Put(d, k, v) == [x \in DOMAIN d \cup {k} |-> IF x = k THEN v ELSE d[x]]

\* The frame of a play_full_game(agents, num_rounds) call: its arguments, the
\* locals of play_full_game (round_results, result) and of the play_round call in
\* progress (requests handed to the providers, decisions, contributions,
\* knowledge_shared), where the call stands (pc), and what the game wrote with
\* logger.error: error_log holds <<round of the call, agent>> for every
\* make_decision call that raised.
NewMatchCall(g, players, num_rounds) ==
    [ pc |-> "call", game |-> g, players |-> players, num_rounds |-> num_rounds,
      played |-> 0, requests |-> EmptyDict, pending |-> {}, ask |-> 0,
      decisions |-> EmptyDict, contributions |-> EmptyDict,
      knowledge_shared |-> EmptyDict, round_results |-> << >>, result |-> "None",
      error_log |-> {} ]

\* no play_full_game / run_tournament call is in progress
NoMatch == [NewMatchCall("none", << >>, 0) EXCEPT !.pc = "idle"]
NoTour  == [pc |-> "idle"]
NoCall  == [op |-> "none"]
NoStrategies == << >>

(***************************************************************************)
(* PayoffCalculator (payoff.py).  Rates are fractions <<n, d>> in lowest   *)
(* terms; 0.0 is <<0, 1>> and 1.0 is <<1, 1>>.                             *)
(***************************************************************************)
Frac(n, d) == IF n = 0 THEN <<0, 1>> ELSE <<n \div GCD(n, d), d \div GCD(n, d)>>

CountWhere(s, P(_)) == Cardinality({i \in 1..Len(s) : P(s[i])})

\* mutant: the two off-diagonal cells are swapped
GetPayoffsSwapped(rm, action1, action2) ==
    LET coop1 == action1 \in {COOPERATE, SHARE_KNOWLEDGE}
        coop2 == action2 \in {COOPERATE, SHARE_KNOWLEDGE}
    IN  IF coop1 /\ coop2 THEN rm.cooperate_cooperate
        ELSE IF coop1 /\ ~coop2 THEN rm.defect_cooperate
        ELSE IF ~coop1 /\ coop2 THEN rm.cooperate_defect
        ELSE rm.defect_defect

\* mutant: only COOPERATE counts as cooperative for the first player
GetPayoffsFirstNarrow(rm, action1, action2) ==
    LET coop1 == action1 = COOPERATE
        coop2 == action2 \in {COOPERATE, SHARE_KNOWLEDGE}
    IN  IF coop1 /\ coop2 THEN rm.cooperate_cooperate
        ELSE IF coop1 /\ ~coop2 THEN rm.cooperate_defect
        ELSE IF ~coop1 /\ coop2 THEN rm.defect_cooperate
        ELSE rm.defect_defect

\* RewardMatrix.get_payoffs(action1, action2)
GetPayoffs(rm, action1, action2) ==
    LET coop1 == action1 \in {COOPERATE, SHARE_KNOWLEDGE}
        coop2 == action2 \in {COOPERATE, SHARE_KNOWLEDGE}
    IN  IF coop1 /\ coop2 THEN rm.cooperate_cooperate
        ELSE IF coop1 /\ ~coop2 THEN rm.cooperate_defect
        ELSE IF ~coop1 /\ coop2 THEN rm.defect_cooperate
        ELSE rm.defect_defect

\* PayoffCalculator.calculate_round_payoffs, in payoff units
CalculateRoundPayoffs(rm, action1, action2) ==
    <<GetPayoffs(rm, action1, action2)[1] * PayScale,
      GetPayoffs(rm, action1, action2)[2] * PayScale>>

\* PayoffCalculator.calculate_cumulative_payoffs
RECURSIVE CalculateCumulativePayoffs(_, _)
CalculateCumulativePayoffs(rm, history) ==
    IF history = << >> THEN <<0, 0>>
    ELSE LET p == CalculateRoundPayoffs(rm, Head(history)[1], Head(history)[2])
             r == CalculateCumulativePayoffs(rm, Tail(history))
         IN  <<p[1] + r[1], p[2] + r[2]>>

\* mutant: only the literal COOPERATE is counted
CalculateCooperationRateLiteral(actions) ==
    IF actions = << >> THEN <<0, 1>>
    ELSE Frac(Cardinality({i \in 1..Len(actions) : actions[i] = COOPERATE}),
              Len(actions))

\* PayoffCalculator.calculate_cooperation_rate
CalculateCooperationRate(actions) ==
    IF actions = << >> THEN <<0, 1>>
    ELSE Frac(CountWhere(actions, IsCooperative), Len(actions))

BothCooperate(pair) == IsCooperative(pair[1]) /\ IsCooperative(pair[2])

\* PayoffCalculator.calculate_mutual_cooperation_rate
CalculateMutualCooperationRate(history) ==
    IF history = << >> THEN <<0, 1>>
    ELSE Frac(CountWhere(history, BothCooperate), Len(history))

\* PayoffCalculator.calculate_exploitation_rate
CalculateExploitationRate(history, player) ==
    LET Exploits(pair) ==
            LET my    == IF player = 1 THEN pair[1] ELSE pair[2]
                other == IF player = 1 THEN pair[2] ELSE pair[1]
            IN  my \in {DEFECT, WITHHOLD_KNOWLEDGE} /\ IsCooperative(other)
    IN  IF history = << >> THEN <<0, 1>>
        ELSE Frac(CountWhere(history, Exploits), Len(history))

\* PayoffCalculator.calculate_pareto_efficiency
CalculateParetoEfficiency(history) ==
    IF history = << >> THEN <<0, 1>>
    ELSE Frac(CountWhere(history, BothCooperate), Len(history))

\* PayoffCalculator.analyze_game_outcomes
AnalyzeGameOutcomes(rm, history, agent1_name, agent2_name) ==
    IF history = << >> THEN [error |-> "No game history provided"]
    ELSE
      LET total    == CalculateCumulativePayoffs(rm, history)
          actions1 == [i \in 1..Len(history) |-> history[i][1]]
          actions2 == [i \in 1..Len(history) |-> history[i][2]]
          PerAgent(k) ==
              [ total_payoff      |-> total[k],
                average_payoff    |-> <<total[k], Len(history)>>,
                cooperation_rate  |-> CalculateCooperationRate(
                                          IF k = 1 THEN actions1 ELSE actions2),
                exploitation_rate |-> CalculateExploitationRate(history, k) ]
      IN  [ game_summary |->
                [ total_rounds            |-> Len(history),
                  mutual_cooperation_rate |-> CalculateMutualCooperationRate(history),
                  pareto_efficiency       |-> CalculateParetoEfficiency(history) ],
            per_agent |->
                [n \in {agent1_name, agent2_name} |->
                    IF n = agent1_name THEN PerAgent(1) ELSE PerAgent(2)],
            comparative_analysis |->
                [ payoff_difference |-> total[1] - total[2],
                  winner |-> IF total[1] > total[2] THEN agent1_name
                             ELSE IF total[2] > total[1] THEN agent2_name
                             ELSE "Tie" ] ]

(***************************************************************************)
(* GameDecision and the decision providers                                 *)
(***************************************************************************)
\* confidence is kept in hundredths
Decision(action, reasoning, confidence, knowledge) ==
    [ action |-> action, reasoning |-> reasoning, confidence |-> confidence,
      knowledge_to_share |-> knowledge ]

\* GameDecision(action=..., reasoning="Error fallback", confidence=0.0)
Fallback(action) == Decision(action, "Error fallback", 0, << >>)

Returned(d) == [raised |-> FALSE, decision |-> d]
Raised      == [raised |-> TRUE]

NameOrder == <<"a", "b", "c">>
NameIndex(n) == CHOOSE i \in 1..Len(NameOrder) : NameOrder[i] = n

\* A knowledge item is <<round, index, text>>: the game seeds
\* f"Knowledge_{round}_{i}: {text}"; <<0, i, 0>> is an item that provider i
\* brings itself.
OwnItem(name) == <<0, NameIndex(name), 0>>

\* what an unconstrained provider may attach: its first known item, or its own
Offer(name, st) ==
    IF st.knowledge_base = << >> THEN << OwnItem(name) >>
    ELSE << st.knowledge_base[1] >>

\* the decisions an unconstrained provider is explored with, per game
FreeChoices(g, offer) ==
    CASE g = PRISONERS_DILEMMA ->
            { <<COOPERATE, << >> >>, <<COOPERATE, offer>>,
              <<DEFECT, << >> >>, <<DEFECT, offer>>, <<SHARE_KNOWLEDGE, << >> >> }
      [] g = PUBLIC_GOODS ->
            { <<COOPERATE, << >> >>, <<DEFECT, << >> >> }
      [] g = KNOWLEDGE_SHARING ->
            { <<SHARE_KNOWLEDGE, offer>>, <<WITHHOLD_KNOWLEDGE, << >> >> }

\* BaseGameAgent.get_knowledge_to_share(requester_id)
GetKnowledgeToShare(st, trust_threshold, requester_id) ==
    LET trust_score == GetTrustScore(st, requester_id)
        max_items   == Max(1, (Len(st.knowledge_base) * trust_score) \div TrustScale)
    IN  IF trust_score < trust_threshold THEN << >>
        ELSE SubSeq(st.knowledge_base, 1, Min(max_items, Len(st.knowledge_base)))

Take(s, n) == SubSeq(s, 1, Min(n, Len(s)))

\* TitForTatAgent.make_decision; req.opponent_id is "" when the context has none
TitForTatDecision(st, req) ==
    LET mine == SelectSeq(st.cooperation_history,
                          LAMBDA e : e[1] = req.opponent_id)
        last == IF req.opponent_history # << >>
                THEN req.opponent_history[Len(req.opponent_history)]
                ELSE IF req.opponent_id # "" /\ mine # << >>
                THEN mine[Len(mine)][2]
                ELSE "None"
        action == IF last = "None" THEN COOPERATE
                  ELSE IF IsCooperative(last) THEN COOPERATE
                  ELSE DEFECT
        knowledge == IF action = COOPERATE /\ req.opponent_id # ""
                     THEN Take(GetKnowledgeToShare(st, Half, req.opponent_id), 2)
                     ELSE << >>
    IN  Decision(action, "tit-for-tat", IF last = "None" THEN 80 ELSE 90, knowledge)

\* CompetitiveAgent: cooperation_threshold=0.8, trust_threshold=0.7
CompetitiveCooperationThreshold == 8 * Tenth
CompetitiveTrustThreshold       == 7 * Tenth

\* mutant: a trust score of exactly 0.8 is enough to cooperate
CompetitiveDecisionAtThreshold(st, req) ==
    LET trusted == /\ req.opponent_id # ""
                   /\ GetTrustScore(st, req.opponent_id)
                          >= CompetitiveCooperationThreshold
    IN  IF trusted
        THEN Decision(COOPERATE, "trust", 60,
                 Take(GetKnowledgeToShare(st, CompetitiveTrustThreshold,
                                          req.opponent_id), 1))
        ELSE Decision(DEFECT, "competition", 85, << >>)

\* CompetitiveAgent.make_decision; req.opponent_id is "" when the context has none
CompetitiveDecision(st, req) ==
    LET trusted == /\ req.opponent_id # ""
                   /\ GetTrustScore(st, req.opponent_id)
                          > CompetitiveCooperationThreshold
    IN  IF trusted
        THEN Decision(COOPERATE, "trust", 60,
                 Take(GetKnowledgeToShare(st, CompetitiveTrustThreshold,
                                          req.opponent_id), 1))
        ELSE Decision(DEFECT, "competition", 85, << >>)

\* CooperativeAgent: trust_threshold=0.3
CooperativeTrustThreshold == 3 * Tenth

\* CooperativeAgent.make_decision; knowledge is looked up only when the
\* context has an opponent_id
CooperativeDecision(st, req) ==
    Decision(COOPERATE, "cooperation", 90,
             IF req.opponent_id # ""
             THEN Take(GetKnowledgeToShare(st, CooperativeTrustThreshold,
                                           req.opponent_id), 3)
             ELSE << >>)

\* RandomAgent.make_decision: random.choice of the action and, for COOPERATE
\* in a context with an opponent_id, a coin flip on sharing 1 to 3 items
RandomDecisions(st, req) ==
    { Decision(DEFECT, "random", 50, << >>),
      Decision(COOPERATE, "random", 50, << >>) }
    \cup (IF req.opponent_id = "" THEN {}
          ELSE { Decision(COOPERATE, "random", 50,
                          Take(GetKnowledgeToShare(st, Half, req.opponent_id), k)) :
                     k \in 1..3 })

\* arithmetic on fractions <<n, d>> with d > 0
FracAdd(x, y) == Frac(x[1] * y[2] + y[1] * x[2], x[2] * y[2])
FracTimes(a, b, x) == Frac(a * x[1], b * x[2])
FracLess(x, y) == x[1] * y[2] < y[1] * x[2]

\* BaseGameAgent.get_cooperation_rate(agent_id) for a given agent_id
GetCooperationRate(st, agent_id) ==
    LET agent_actions == SelectSeq(st.cooperation_history,
                                   LAMBDA e : e[1] = agent_id)
    IN  IF agent_actions = << >> THEN <<1, 2>>
        ELSE Frac(Cardinality({i \in 1..Len(agent_actions) :
                                  IsCooperative(agent_actions[i][2])}),
                  Len(agent_actions))

\* AdaptiveAgent.make_decision: cooperation_probability before the random term,
\* 0.3 rate + 0.3 trust + 0.2 min(1, avg_recent_payoff / 5) + 0.2 reputation
AdaptiveAgentBase(st, req) ==
    LET known  == req.opponent_id # ""
        rate   == IF known THEN GetCooperationRate(st, req.opponent_id) ELSE <<1, 2>>
        trust  == IF known THEN Frac(GetTrustScore(st, req.opponent_id), TrustScale)
                  ELSE <<1, 2>>
        recent == LastN(st.payoff_history, 5)
        avg    == IF recent = << >> THEN <<1, 2>>
                  ELSE Frac(SumSeq(recent), Len(recent) * 5 * PayScale)
        capped == IF FracLess(<<1, 1>>, avg) THEN <<1, 1>> ELSE avg
    IN  FracAdd(FracAdd(FracTimes(3, 10, rate), FracTimes(3, 10, trust)),
                FracAdd(FracTimes(2, 10, capped), FracTimes(2, 10, st.reputation)))

\* the confidence of an AdaptiveAgent decision, abs(p - 0.5) * 2, varies
\* continuously with the random term; no game reads it and it is kept as a
\* symbol
AdaptiveConfidence == "abs(p - 0.5) * 2"

\* AdaptiveAgent.make_decision: p = clamp(base + random.uniform(-0.1, 0.1)),
\* COOPERATE iff p > 0.5, and for COOPERATE in a context with an opponent_id
\* the first max(1, int(3 p)) items of get_knowledge_to_share
AdaptiveAgentDecisions(st, req) ==
    LET base == AdaptiveAgentBase(st, req)
        low  == FracAdd(base, <<-1, 10>>)
        high == FracAdd(base, <<1, 10>>)
        amounts == { k \in 1..3 :
                       \/ k = 1 /\ FracLess(low, <<2, 3>>)
                       \/ k = 2 /\ FracLess(<<2, 3>>, high) /\ FracLess(low, <<1, 1>>)
                       \/ k = 3 /\ ~ FracLess(high, <<1, 1>>) }
    IN  (IF FracLess(<<1, 2>>, low) THEN {}
         ELSE { Decision(DEFECT, "adaptive", AdaptiveConfidence, << >>) })
        \cup
        (IF ~ FracLess(<<1, 2>>, high) THEN {}
         ELSE IF req.opponent_id = ""
         THEN { Decision(COOPERATE, "adaptive", AdaptiveConfidence, << >>) }
         ELSE { Decision(COOPERATE, "adaptive", AdaptiveConfidence,
                         Take(GetKnowledgeToShare(st, Half, req.opponent_id), k)) :
                    k \in amounts })

\* every outcome a make_decision call of the given kind of provider can have
ProviderOutcomes(kind, g, name, st, req) ==
    CASE kind = "always_cooperate" ->
            { Returned(Decision(COOPERATE, "Always cooperate", 100, << >>)) }
      [] kind = "always_defect" ->
            { Returned(Decision(DEFECT, "Always defect", 100, << >>)) }
      [] kind = "tit_for_tat" ->
            { Returned(TitForTatDecision(st, req)) }
      [] kind = "competitive" ->
            { Returned(CompetitiveDecision(st, req)) }
      [] kind = "cooperative" ->
            { Returned(CooperativeDecision(st, req)) }
      [] kind = "random" ->
            { Returned(d) : d \in RandomDecisions(st, req) }
      [] kind = "adaptive" ->
            { Returned(d) : d \in AdaptiveAgentDecisions(st, req) }
      \* the mock of test_knowledge_sharing_game that shares in every round
      [] kind = "always_share" ->
            { Returned(Decision(SHARE_KNOWLEDGE, "Share knowledge", 80,
                                Offer(name, st))) }
      \* a provider whose GameDecision is any action with or without knowledge
      \* attached, whatever the game: GameDecision does not tie the two together
      [] kind = "unchecked" ->
            { Returned(Decision(action, "provider", 100, knowledge)) :
                  action \in AgentAction, knowledge \in {<< >>, Offer(name, st)} }
      \* a make_decision coroutine that never completes: the await has no outcome
      [] kind = "never_returns" -> {}
      [] kind = "free" ->
            { Raised } \cup
            { Returned(Decision(c[1], "provider", 100, c[2])) :
                  c \in FreeChoices(g, Offer(name, st)) }

(***************************************************************************)
(* The games (games.py).  play_round awaits the providers, so a round is   *)
(* several steps: the round starts and the requests are built, the         *)
(* providers answer, and the synchronous rest of play_round commits.       *)
(***************************************************************************)
Range(s) == {s[i] : i \in 1..Len(s)}

\* mutant: reset leaves the round counter as it is
ResetGameKeepsCounter(gm) == [gm EXCEPT !.results_history = << >>]

\* BaseGame.reset (no game overrides it)
ResetGame(gm) == [gm EXCEPT !.round_number = 0, !.results_history = << >>]

\* play_full_game, up to the first round: the participant check of
\* PrisonersDilemma and self.reset()
BeginFullGame ==
    /\ match.pc = "call"
    /\ IF match.game = PRISONERS_DILEMMA /\ Len(match.players) # 2
       THEN /\ match' = [match EXCEPT !.pc = "raised"]
            /\ UNCHANGED games
       ELSE /\ games' = [games EXCEPT ![match.game] = ResetGame(@)]
            /\ match' = [match EXCEPT !.pc = "round"]
    /\ UNCHANGED <<waiting, strategies, agents, tour, providers, registry, lastCall, ncalls>>

\* sum of one agent's payoffs over the recorded rounds
TotalPayoff(round_results, name) ==
    SumSeq([i \in 1..Len(round_results) |-> round_results[i].payoffs[name]])

\* mutant: among equal totals the last key wins
LastMax(players, total) ==
    players[CHOOSE i \in 1..Len(players) :
                /\ \A j \in 1..Len(players) : total[players[j]] <= total[players[i]]
                /\ \A j \in (i + 1)..Len(players) : total[players[j]] < total[players[i]]]

\* max(total_payoffs.keys(), key=...): the first key, in insertion order, with
\* the largest total
FirstMax(players, total) ==
    players[CHOOSE i \in 1..Len(players) :
                /\ \A j \in 1..Len(players) : total[players[j]] <= total[players[i]]
                /\ \A j \in 1..(i - 1) : total[players[j]] < total[players[i]]]

\* actions_history: one (name, action) entry per participant per round, in
\* round order and, within a round, in the order of the round's dict
ActionsHistory(round_results, players, ActionOf(_, _)) ==
    [ x \in 1..(Len(round_results) * Len(players)) |->
        LET r == ((x - 1) \div Len(players)) + 1
            n == players[((x - 1) % Len(players)) + 1]
        IN  <<n, ActionOf(round_results[r], n)>> ]

ActionsOf(actions_history, name) ==
    LET own == SelectSeq(actions_history, LAMBDA e : e[1] = name)
    IN  [i \in 1..Len(own) |-> own[i][2]]

(***************************************************************************)
(* PrisonersDilemma                                                        *)
(***************************************************************************)
PD == PRISONERS_DILEMMA

\* mutant: the histories are handed over the wrong way round (each agent gets
\* its own past actions)
PDOpponentHistoryOwn(game_history, k) ==
    [i \in 1..Len(game_history) |-> game_history[i][k]]

\* agent1_history = [a for a, _ in game_history], agent2_history = [a for _, a in ...];
\* agent k is handed the history of the other one
PDOpponentHistory(game_history, k) ==
    [i \in 1..Len(game_history) |-> game_history[i][3 - k]]

\* play_round, lines 91-150: count the round, build both contexts and histories
\* and create both make_decision requests
PDStartRound ==
    /\ match.pc = "round"
    /\ match.game = PD
    /\ match.played < match.num_rounds
    /\ games' = [games EXCEPT ![PD].round_number = @ + 1]
    /\ match' = [match EXCEPT
          !.pc = "gather",
          !.pending = {1, 2},
          !.decisions = EmptyDict,
          !.requests = [n \in Range(match.players) |->
              LET k == CHOOSE i \in {1, 2} : match.players[i] = n
              IN  [ game_type        |-> PD,
                    round_number     |-> games[PD].round_number + 1,
                    opponent_id      |-> match.players[3 - k],
                    opponent_history |-> PDOpponentHistory(games[PD].game_history, k) ]]]
    /\ UNCHANGED <<waiting, strategies, agents, tour, providers, registry, lastCall, ncalls>>

\* asyncio.gather(decision1_task, decision2_task): one provider answers.  The
\* first exception ends the gather and the except branch replaces both decisions.
PDDecide ==
    /\ match.pc = "gather"
    /\ match.game = PD
    /\ \E i \in match.pending :
         LET name == match.players[i]
         IN  \E out \in ProviderOutcomes(providers[name], PD, name, agents[name],
                                        match.requests[name]) :
               match' =
                 IF out.raised
                 THEN [match EXCEPT
                          !.pc = "commit", !.pending = {},
                          !.error_log = @ \cup {<<match.played + 1, name>>},
                          !.decisions = [n \in Range(match.players) |-> Fallback(DEFECT)]]
                 ELSE [match EXCEPT
                          !.pc = IF match.pending = {i} THEN "commit" ELSE "gather",
                          !.pending = @ \ {i},
                          !.decisions = Put(@, name, out.decision)]
    /\ UNCHANGED <<waiting, strategies, agents, games, tour, providers, registry, lastCall, ncalls>>

\* play_round, lines 162-197, and the append to round_results in play_full_game
PDCommit ==
    /\ match.pc = "commit"
    /\ match.game = PD
    /\ LET a1 == match.players[1]
           a2 == match.players[2]
           d1 == match.decisions[a1]
           d2 == match.decisions[a2]
           pay == CalculateRoundPayoffs(games[PD].reward_matrix, d1.action, d2.action)
           s1 == UpdateState(agents[a1], a2, d2.action, pay[1], d1.action)
           s2 == UpdateState(agents[a2], a1, d1.action, pay[2], d2.action)
           s2k == IF d1.knowledge_to_share # << >>
                  THEN ShareKnowledge(s2, d1.knowledge_to_share) ELSE s2
           s1k == IF d2.knowledge_to_share # << >>
                  THEN ShareKnowledge(s1, d2.knowledge_to_share) ELSE s1
           round_result ==
               [ round     |-> games[PD].round_number,
                 actions   |-> [n \in {a1, a2} |-> match.decisions[n].action],
                 decisions |-> match.decisions,
                 payoffs   |-> [n \in {a1, a2} |-> IF n = a1 THEN pay[1] ELSE pay[2]],
                 knowledge_shared |->
                     [n \in {a1, a2} |-> match.decisions[n].knowledge_to_share] ]
       IN  /\ agents' = [agents EXCEPT ![a1] = s1k, ![a2] = s2k]
           /\ games' = [games EXCEPT ![PD].game_history =
                            Append(@, <<d1.action, d2.action>>)]
           /\ match' = [match EXCEPT
                  !.pc = "round", !.played = @ + 1,
                  !.round_results = Append(@, round_result)]
    /\ UNCHANGED <<waiting, strategies, tour, providers, registry, lastCall, ncalls>>

\* play_full_game, lines 220-269: the GameResult
PDFinish ==
    /\ match.pc = "round"
    /\ match.game = PD
    /\ match.played = match.num_rounds
    /\ LET a1 == match.players[1]
           a2 == match.players[2]
           rr == match.round_results
           total_payoffs == [n \in {a1, a2} |-> TotalPayoff(rr, n)]
           actions_history ==
               ActionsHistory(rr, match.players, LAMBDA r, n : r.actions[n])
           first == FirstMax(match.players, total_payoffs)
           result ==
               [ game_type    |-> PD,
                 participants |-> match.players,
                 rounds       |-> match.num_rounds,
                 actions_history |-> actions_history,
                 payoffs      |-> total_payoffs,
                 cooperation_rates |->
                     [n \in {a1, a2} |->
                         CalculateCooperationRate(ActionsOf(actions_history, n))],
                 winner       |-> IF total_payoffs[a1] = total_payoffs[a2]
                                  THEN "None" ELSE first,
                 additional_metrics |->
                     AnalyzeGameOutcomes(games[PD].reward_matrix,
                                         games[PD].game_history, a1, a2) ]
       IN  /\ games' = [games EXCEPT ![PD].results_history = Append(@, result)]
           /\ match' = [match EXCEPT !.pc = "done", !.result = result]
    /\ UNCHANGED <<waiting, strategies, agents, tour, providers, registry, lastCall, ncalls>>

(***************************************************************************)
(* PublicGoodsGame.  Contributions and payoffs are in payoff units.        *)
(***************************************************************************)
PG == PUBLIC_GOODS

\* mutant: the context of the N-player games names agent a as the opponent
GroupRequestNamed(g, round_number) ==
    [ game_type |-> g, round_number |-> round_number,
      opponent_id |-> "a", opponent_history |-> << >> ]

\* the context of the N-player games names other_agents but no opponent_id, and
\* make_decision is called without an opponent history
GroupRequest(g, round_number) ==
    [ game_type |-> g, round_number |-> round_number,
      opponent_id |-> "", opponent_history |-> << >> ]

\* play_round, lines 287-289
PGStartRound ==
    /\ match.pc = "round"
    /\ match.game = PG
    /\ match.played < match.num_rounds
    /\ games' = [games EXCEPT ![PG].round_number = @ + 1]
    /\ match' = [match EXCEPT
          !.pc = "ask", !.ask = 1, !.decisions = EmptyDict,
          !.contributions = EmptyDict, !.requests = EmptyDict]
    /\ UNCHANGED <<waiting, strategies, agents, tour, providers, registry, lastCall, ncalls>>

\* mutant: every decision contributes the cooperative 80%
PGContributionAlwaysHigh(endowment, action) ==
    (endowment * PayScale * 8) \div 10

\* self.endowment * 0.8 if decision.action == AgentAction.COOPERATE
\* else self.endowment * 0.2
PGContribution(endowment, action) ==
    IF action = COOPERATE THEN (endowment * PayScale * 8) \div 10
                          ELSE (endowment * PayScale * 2) \div 10

\* mutant: no try/except around make_decision, the exception leaves play_round
PGAskPropagates ==
    /\ match.pc = "ask"
    /\ match.game = PG
    /\ LET name == match.players[match.ask]
           req  == GroupRequest(PG, games[PG].round_number)
       IN  \E out \in ProviderOutcomes(providers[name], PG, name, agents[name], req) :
             match' = IF out.raised
                      THEN [match EXCEPT
                               !.pc = "raised",
                               !.error_log = @ \cup {<<match.played + 1, name>>}]
                      ELSE [match EXCEPT
                               !.requests = Put(@, name, req),
                               !.decisions = Put(@, name, out.decision),
                               !.contributions = Put(@, name,
                                   PGContribution(games[PG].endowment,
                                                  out.decision.action)),
                               !.ask = @ + 1,
                               !.pc = IF match.ask = Len(match.players)
                                      THEN "commit" ELSE "ask"]
    /\ UNCHANGED <<waiting, strategies, agents, games, tour, providers, registry, lastCall, ncalls>>

\* play_round, lines 292-316: the next agent of the loop is asked and answers
PGAsk ==
    /\ match.pc = "ask"
    /\ match.game = PG
    /\ LET name == match.players[match.ask]
           req  == GroupRequest(PG, games[PG].round_number)
       IN  \E out \in ProviderOutcomes(providers[name], PG, name, agents[name], req) :
             match' = [match EXCEPT
                 !.requests = Put(@, name, req),
                 !.decisions = Put(@, name,
                     IF out.raised THEN Fallback(DEFECT) ELSE out.decision),
                 !.contributions = Put(@, name,
                     IF out.raised THEN 0
                     ELSE PGContribution(games[PG].endowment, out.decision.action)),
                 !.error_log = IF out.raised THEN @ \cup {<<match.played + 1, name>>}
                               ELSE @,
                 !.ask = @ + 1,
                 !.pc = IF match.ask = Len(match.players) THEN "commit" ELSE "ask"]
    /\ UNCHANGED <<waiting, strategies, agents, games, tour, providers, registry, lastCall, ncalls>>

SumOver(f) == SumSeq([i \in 1..Len(NameOrder) |->
                        IF NameOrder[i] \in DOMAIN f THEN f[NameOrder[i]] ELSE 0])

\* mutant: the pool is shared out among the contributors of the cooperative
\* amount only
PGPayoffContributorsOnly(endowment, multiplier10, contributions, name) ==
    LET high == {n \in DOMAIN contributions :
                    contributions[n] * 2 > endowment * PayScale}
    IN  (endowment * PayScale - contributions[name])
        + (IF name \in high
           THEN (SumOver(contributions) * multiplier10) \div (10 * Cardinality(high))
           ELSE 0)

\* (self.endowment - contribution) + total_contributions * self.multiplier / len(agents)
PGPayoff(endowment, multiplier10, contributions, name) ==
    (endowment * PayScale - contributions[name])
    + (SumOver(contributions) * multiplier10)
          \div (10 * Cardinality(DOMAIN contributions))

\* play_round, lines 318-358, and the append to round_results
PGCommit ==
    /\ match.pc = "commit"
    /\ match.game = PG
    /\ LET gm == games[PG]
           c  == match.contributions
           k  == Len(match.players)
           payoffs == [n \in Range(match.players) |->
                          PGPayoff(gm.endowment, gm.multiplier10, c, n)]
           OthersCooperating(n) ==
               Cardinality({o \in DOMAIN c : o # n /\ c[o] * 2 > gm.endowment * PayScale})
           \* avg_cooperation > 0.5 with avg = others / max(1, len(agents) - 1)
           Seen(n) == IF 2 * OthersCooperating(n) > Max(1, k - 1)
                      THEN COOPERATE ELSE DEFECT
           round_result ==
               [ round |-> gm.round_number, contributions |-> c,
                 total_contributions |-> SumOver(c),
                 public_pool |-> (SumOver(c) * gm.multiplier10) \div 10,
                 payoffs |-> payoffs, decisions |-> match.decisions ]
       IN  /\ agents' = [n \in DOMAIN agents |->
                  IF n \in Range(match.players)
                  THEN UpdateState(agents[n], PUBLIC, Seen(n), payoffs[n],
                                   match.decisions[n].action)
                  ELSE agents[n]]
           /\ games' = [games EXCEPT ![PG].contribution_history = Append(@, c)]
           /\ match' = [match EXCEPT
                  !.pc = "round", !.played = @ + 1,
                  !.round_results = Append(@, round_result)]
    /\ UNCHANGED <<waiting, strategies, tour, providers, registry, lastCall, ncalls>>

\* play_full_game, lines 376-414
PGFinish ==
    /\ match.pc = "round"
    /\ match.game = PG
    /\ match.played = match.num_rounds
    /\ LET rr == match.round_results
           ps == Range(match.players)
           gm == games[PG]
           total_payoffs == [n \in ps |-> TotalPayoff(rr, n)]
           Contributed(n) == SumSeq([i \in 1..Len(rr) |-> rr[i].contributions[n]])
           result ==
               [ game_type    |-> PG,
                 participants |-> match.players,
                 rounds       |-> match.num_rounds,
                 actions_history |->
                     ActionsHistory(rr, match.players, LAMBDA r, n : r.decisions[n].action),
                 payoffs      |-> total_payoffs,
                 cooperation_rates |->
                     [n \in ps |-> Frac(Contributed(n),
                                        gm.endowment * PayScale * match.num_rounds)],
                 winner       |-> FirstMax(match.players, total_payoffs),
                 additional_metrics |->
                     [ total_welfare |-> SumOver(total_payoffs),
                       average_contribution_rate |->
                           Frac(SumOver([n \in ps |-> Contributed(n)]),
                                gm.endowment * PayScale * match.num_rounds
                                    * Len(match.players)),
                       contribution_history |-> gm.contribution_history ] ]
       IN  \* cooperation_rates[agent.name] /= num_rounds: with no round played the
           \* key was never set and the statement raises KeyError
           IF match.num_rounds = 0
           THEN /\ match' = [match EXCEPT !.pc = "raised"]
                /\ UNCHANGED games
           ELSE /\ games' = [games EXCEPT ![PG].results_history = Append(@, result)]
                /\ match' = [match EXCEPT !.pc = "done", !.result = result]
    /\ UNCHANGED <<waiting, strategies, agents, tour, providers, registry, lastCall, ncalls>>

(***************************************************************************)
(* KnowledgeSharingGame                                                    *)
(***************************************************************************)
KS == KNOWLEDGE_SHARING

\* an agent is seeded while len(knowledge_base) < 3
SeedBelow == 3
\* the trust gate of a transfer, in tenths: get_trust_score(...) > 0.3
GateTenths == 3
\* random.choice(self.knowledge_pool): the text does not enter any decision of
\* the game; the model draws it from a pool with a single text
KnowledgePool == {1}

\* play_round, lines 441-449: count the round and seed the agents, in list
\* order, with f"Knowledge_{round}_{i}: {text}"
KSStartRound ==
    /\ match.pc = "round"
    /\ match.game = KS
    /\ match.played < match.num_rounds
    /\ games' = [games EXCEPT ![KS].round_number = @ + 1]
    /\ \E text \in [1..Len(match.players) -> KnowledgePool] :
          agents' = [n \in DOMAIN agents |->
              IF \E i \in 1..Len(match.players) :
                     match.players[i] = n /\ Len(agents[n].knowledge_base) < SeedBelow
              THEN LET i == CHOOSE i \in 1..Len(match.players) : match.players[i] = n
                   IN  ShareKnowledge(agents[n],
                           << <<games[KS].round_number + 1, i - 1, text[i]>> >>)
              ELSE agents[n]]
    /\ match' = [match EXCEPT
          !.pc = "ask", !.ask = 1, !.decisions = EmptyDict,
          !.knowledge_shared = EmptyDict, !.requests = EmptyDict]
    /\ UNCHANGED <<waiting, strategies, tour, providers, registry, lastCall, ncalls>>

\* mutant: what an agent shares is handed to the others as soon as it decides
KSAskEager ==
    /\ match.pc = "ask"
    /\ match.game = KS
    /\ LET name == match.players[match.ask]
           req  == GroupRequest(KS, games[KS].round_number)
       IN  \E out \in ProviderOutcomes(providers[name], KS, name, agents[name], req) :
             LET given == IF out.raised THEN << >>
                          ELSE out.decision.knowledge_to_share
             IN  /\ match' = [match EXCEPT
                        !.requests = Put(@, name, req),
                        !.decisions = Put(@, name,
                            IF out.raised THEN Fallback(WITHHOLD_KNOWLEDGE)
                            ELSE out.decision),
                        !.knowledge_shared = Put(@, name, given),
                        !.error_log = IF out.raised
                                      THEN @ \cup {<<match.played + 1, name>>}
                                      ELSE @,
                        !.ask = @ + 1,
                        !.pc = IF match.ask = Len(match.players)
                               THEN "commit" ELSE "ask"]
                 /\ agents' = [n \in DOMAIN agents |->
                        IF n \in Range(match.players) /\ n # name /\ given # << >>
                        THEN ShareKnowledge(agents[n], given) ELSE agents[n]]
    /\ UNCHANGED <<waiting, strategies, games, tour, providers, registry, lastCall, ncalls>>

\* play_round, lines 452-473: the next agent of the loop is asked and answers
KSAsk ==
    /\ match.pc = "ask"
    /\ match.game = KS
    /\ LET name == match.players[match.ask]
           req  == GroupRequest(KS, games[KS].round_number)
       IN  \E out \in ProviderOutcomes(providers[name], KS, name, agents[name], req) :
             match' = [match EXCEPT
                 !.requests = Put(@, name, req),
                 !.decisions = Put(@, name,
                     IF out.raised THEN Fallback(WITHHOLD_KNOWLEDGE) ELSE out.decision),
                 !.knowledge_shared = Put(@, name,
                     IF out.raised THEN << >> ELSE out.decision.knowledge_to_share),
                 !.error_log = IF out.raised THEN @ \cup {<<match.played + 1, name>>}
                               ELSE @,
                 !.ask = @ + 1,
                 !.pc = IF match.ask = Len(match.players) THEN "commit" ELSE "ask"]
    /\ UNCHANGED <<waiting, strategies, agents, games, tour, providers, registry, lastCall, ncalls>>

\* mutant: the gate reads the receiver's trust in the sharer
KSGateOpenReceiverTrust(ag, sharer, receiver) ==
    GetTrustScore(ag[receiver], sharer) > GateTenths * Tenth

\* other_agent.get_trust_score(agent.name) > 0.3: the sharer's trust in the receiver
KSGateOpen(ag, sharer, receiver) ==
    GetTrustScore(ag[sharer], receiver) > GateTenths * Tenth

\* knowledge_received[agent.name]: what the sharers, in list order, pass to one
\* receiver
RECURSIVE KSReceived(_, _, _, _)
KSReceived(ag, shared, receiver, sharers) ==
    IF sharers = << >> THEN << >>
    ELSE LET o == Head(sharers)
         IN  (IF o # receiver /\ shared[o] # << >> /\ KSGateOpen(ag, o, receiver)
              THEN shared[o] ELSE << >>)
             \o KSReceived(ag, shared, receiver, Tail(sharers))

\* payoff = -sharing_cost * len(shared) + knowledge_value * len(received)
KSPayoff(value, cost, shared, received, name) ==
    - cost * Len(shared[name]) + value * Len(received)

\* the update loop of lines 503-508 for one agent: one update_state call per
\* other participant, in list order
RECURSIVE KSObserve(_, _, _, _, _, _)
KSObserve(st, me, others, shared, payoff, my_action) ==
    IF others = << >> THEN st
    ELSE KSObserve(
           IF Head(others) = me THEN st
           ELSE UpdateState(st, Head(others),
                            IF Len(shared[Head(others)]) > 0
                            THEN SHARE_KNOWLEDGE ELSE WITHHOLD_KNOWLEDGE,
                            payoff, my_action),
           me, Tail(others), shared, payoff, my_action)

\* play_round, lines 475-522, and the append to round_results
KSCommit ==
    /\ match.pc = "commit"
    /\ match.game = KS
    /\ LET gm == games[KS]
           ps == Range(match.players)
           shared == match.knowledge_shared
           received == [n \in ps |-> KSReceived(agents, shared, n, match.players)]
           payoffs == [n \in ps |->
                          KSPayoff(gm.knowledge_value, gm.sharing_cost, shared,
                                   received[n], n)]
           round_result ==
               [ round |-> gm.round_number, decisions |-> match.decisions,
                 knowledge_shared |-> shared, knowledge_received |-> received,
                 payoffs |-> payoffs ]
       IN  /\ agents' = [n \in DOMAIN agents |->
                  IF n \in ps
                  THEN KSObserve(
                          IF received[n] # << >>
                          THEN ShareKnowledge(agents[n], received[n]) ELSE agents[n],
                          n, match.players, shared, payoffs[n],
                          match.decisions[n].action)
                  ELSE agents[n]]
           /\ match' = [match EXCEPT
                  !.pc = "round", !.played = @ + 1,
                  !.round_results = Append(@, round_result)]
    /\ UNCHANGED <<waiting, strategies, games, tour, providers, registry, lastCall, ncalls>>

\* play_full_game, lines 540-593
KSFinish ==
    /\ match.pc = "round"
    /\ match.game = KS
    /\ match.played = match.num_rounds
    /\ LET rr == match.round_results
           ps == Range(match.players)
           total_payoffs == [n \in ps |-> TotalPayoff(rr, n)]
           SharingCount(n) ==
               Cardinality({i \in 1..Len(rr) : rr[i].knowledge_shared[n] # << >>})
           rates == [n \in ps |-> Frac(SharingCount(n), Max(1, Len(rr)))]
           result ==
               [ game_type    |-> KS,
                 participants |-> match.players,
                 rounds       |-> match.num_rounds,
                 actions_history |->
                     ActionsHistory(rr, match.players, LAMBDA r, n : r.decisions[n].action),
                 payoffs      |-> total_payoffs,
                 cooperation_rates |-> rates,
                 winner       |-> FirstMax(match.players, total_payoffs),
                 additional_metrics |->
                     [ total_knowledge_shared |->
                           SumSeq([i \in 1..Len(rr) |->
                               SumOver([n \in ps |-> Len(rr[i].knowledge_shared[n])])]),
                       final_knowledge_counts |->
                           [n \in ps |-> Len(agents[n].knowledge_base)],
                       average_sharing_rate |->
                           Frac(SumOver([n \in ps |-> SharingCount(n)]),
                                Max(1, Len(rr)) * Len(match.players)) ] ]
       IN  /\ games' = [games EXCEPT ![KS].results_history = Append(@, result)]
           /\ match' = [match EXCEPT !.pc = "done", !.result = result]
    /\ UNCHANGED <<waiting, strategies, agents, tour, providers, registry, lastCall, ncalls>>

(***************************************************************************)
(* SpecGame: one play_full_game call on a fresh game object with fresh     *)
(* agents, every provider unconstrained: each make_decision call may       *)
(* return any of the explored decisions or raise.                          *)
(***************************************************************************)
GameRounds == 2

GameSetups ==
    { <<PD, <<"a", "b">> >>, <<PD, <<"a", "b", "c">> >>,
      <<PG, <<"a">> >>, <<PG, <<"a", "b">> >>, <<PG, <<"a", "b", "c">> >>,
      <<KS, <<"a", "b">> >>, <<KS, <<"a", "b", "c">> >> }

\* PublicGoodsGame(multiplier, endowment): the parameters the game is explored with
PGParameters == { <<DefaultMultiplier10, DefaultEndowment>>, <<15, 20>> }

\* the providers behind the agents: all of them unconstrained within the
\* game's own actions, or one provider free in action and knowledge among
\* providers that always share
ProviderSetups ==
    { [n \in Names |-> "free"],
      [n \in Names |-> IF n = "a" THEN "unchecked" ELSE "always_share"] }

GameInit ==
    /\ agents    = [n \in Names |-> FreshAgentState]
    /\ registry  = NameOrder
    /\ providers \in ProviderSetups
    /\ tour      = NoTour
    /\ lastCall  = NoCall
    /\ ncalls    = 0
    /\ strategies = NoStrategies
    /\ waiting  = << >>
    /\ \E setup \in GameSetups, num_rounds \in 1..GameRounds, p \in PGParameters :
          /\ setup[1] = PG \/ p = <<DefaultMultiplier10, DefaultEndowment>>
          /\ games = [InitializeGames EXCEPT ![PG] = NewGame(PG, p[1], p[2])]
          /\ match = NewMatchCall(setup[1], setup[2], num_rounds)

GameNext ==
    \/ BeginFullGame
    \/ PDStartRound \/ PDDecide \/ PDCommit \/ PDFinish
    \/ PGStartRound \/ PGAsk \/ PGCommit \/ PGFinish
    \/ KSStartRound \/ KSAsk \/ KSCommit \/ KSFinish

SpecGame == GameInit /\ [][GameNext]_vars

(***************************************************************************)
(* C2: a decision provider that raises never aborts a game.  For every     *)
(* logged failure <<round, agent>> of a play_full_game call: the call has  *)
(* not raised and, until it is done, stands where its next step is        *)
(* enabled; once the                                                       *)
(* round is recorded its result has a payoff for every participant and the *)
(* failing agent's decision is the fallback (DEFECT in the Prisoner's      *)
(* Dilemma and the Public Goods game, WITHHOLD_KNOWLEDGE in Knowledge      *)
(* Sharing, confidence 0); and the finished call has played num_rounds     *)
(* rounds.                                                                 *)
(***************************************************************************)
FallbackAction(g) == IF g = KS THEN WITHHOLD_KNOWLEDGE ELSE DEFECT

\* the guards of the steps of a running call
CallGoesOn ==
    \/ match.pc = "round" /\ match.played <= match.num_rounds
    \/ match.pc = "gather" /\ match.pending # {}
    \/ match.pc = "ask" /\ match.ask \in 1..Len(match.players)
    \/ match.pc = "commit" /\ DOMAIN match.decisions = Range(match.players)

ProviderFailureContained ==
    match.error_log # {} =>
        /\ match.pc # "raised"
        /\ match.pc # "done" => CallGoesOn
        /\ match.pc = "done" =>
              /\ Len(match.round_results) = match.num_rounds
              /\ match.result.rounds = match.num_rounds
        /\ \A e \in match.error_log :
              e[1] <= Len(match.round_results) =>
                  LET rr == match.round_results[e[1]]
                  IN  /\ DOMAIN rr.payoffs = Range(match.players)
                      /\ rr.decisions[e[2]].action = FallbackAction(match.game)
                      /\ rr.decisions[e[2]].confidence = 0
                      /\ rr.decisions[e[2]] = Fallback(FallbackAction(match.game))

\* a two-round Knowledge Sharing game has finished although the first agent's
\* provider raised in round 1
ProviderFailureWitness ==
    /\ match.game = KS
    /\ match.pc = "done"
    /\ match.num_rounds = 2
    /\ <<1, match.players[1]>> \in match.error_log
    /\ Len(match.round_results) = 2
    /\ match.round_results[1].decisions[match.players[1]]
           = Fallback(WITHHOLD_KNOWLEDGE)

(***************************************************************************)
(* C5: the trust gate of Knowledge Sharing.  In the step that settles a    *)
(* round, for every sharer s that offered items and every other            *)
(* participant r whose trust score at s, read before the round's updates,  *)
(* is at most 0.3: no item s offered is new in r's knowledge_base, r's     *)
(* payoff credits knowledge_value only for the items of sharers whose own  *)
(* trust in r exceeds 0.3, and s is charged sharing_cost for every item it *)
(* offered.                                                                *)
(***************************************************************************)
KSCredited(r) ==
    SumOver([t \in Range(match.players) \ {r} |->
                IF GetTrustScore(agents[t], r) > GateTenths * Tenth
                THEN Len(match.knowledge_shared[t]) ELSE 0])

KSSettles ==
    /\ match.game = KS
    /\ match.pc = "commit"
    /\ match'.pc = "round"

TrustGatePerPair ==
    [][ KSSettles =>
          LET rr == match'.round_results[Len(match'.round_results)]
              gm == games[KS]
          IN  \A s \in Range(match.players) :
                /\ rr.payoffs[s] = - gm.sharing_cost * Len(match.knowledge_shared[s])
                                   + gm.knowledge_value * KSCredited(s)
                /\ \A r \in Range(match.players) \ {s} :
                      (/\ match.knowledge_shared[s] # << >>
                       /\ GetTrustScore(agents[s], r) <= GateTenths * Tenth)
                      => /\ \A i \in 1..Len(match.knowledge_shared[s]) :
                               InSeq(match.knowledge_shared[s][i],
                                     agents'[r].knowledge_base)
                               => InSeq(match.knowledge_shared[s][i],
                                        agents[r].knowledge_base)
                         /\ \A i \in 1..Len(match.knowledge_shared[s]) :
                               ~ InSeq(match.knowledge_shared[s][i],
                                       rr.knowledge_received[r])
      ]_vars

\* a recorded round of a three-player game in which a sharer paid for an item
\* that one participant received and another, whom the sharer trusts at most
\* 0.3, did not, although that participant trusts the sharer more than 0.3
TrustGateWitness ==
    /\ match.game = KS
    /\ match.pc = "round"
    /\ Len(match.players) = 3
    /\ match.round_results # << >>
    /\ LET rr == match.round_results[Len(match.round_results)]
       IN  \E s \in Range(match.players) :
             \E r, t \in Range(match.players) \ {s} :
               /\ r # t
               /\ rr.knowledge_shared[s] # << >>
               /\ rr.payoffs[s] < 0
               /\ ~ InSeq(rr.knowledge_shared[s][1], rr.knowledge_received[r])
               /\ InSeq(rr.knowledge_shared[s][1], rr.knowledge_received[t])
               /\ ~ InSeq(rr.knowledge_shared[s][1], agents[r].knowledge_base)
               /\ GetTrustScore(agents[r], s) > GateTenths * Tenth

(***************************************************************************)
(* C8: every recorded Public Goods round pays each agent                   *)
(* (endowment - own contribution) + multiplier * total / number of agents; *)
(* when all contribute the cooperative 80% each earns                      *)
(* 0.2 * endowment + 0.8 * endowment * multiplier; and an agent that       *)
(* contributed 20% earns strictly more than each agent of the same round   *)
(* that contributed 80%.                                                   *)
(***************************************************************************)
PGHigh == (games[PG].endowment * PayScale * 8) \div 10
PGLow  == (games[PG].endowment * PayScale * 2) \div 10

PublicGoodsPayoffs ==
    match.game = PG =>
        \A i \in 1..Len(match.round_results) :
            LET rr == match.round_results[i]
                c  == rr.contributions
                k  == Len(match.players)
                e  == games[PG].endowment * PayScale
                m10 == games[PG].multiplier10
            IN  /\ \A n \in Range(match.players) :
                      10 * k * (rr.payoffs[n] - (e - c[n])) = m10 * SumOver(c)
                /\ (\A n \in Range(match.players) : c[n] = PGHigh)
                      => \A n \in Range(match.players) :
                            10 * 10 * rr.payoffs[n]
                                = 2 * 10 * e + 8 * m10 * e
                /\ \A n, o \in Range(match.players) :
                      (c[n] = PGLow /\ c[o] = PGHigh)
                          => rr.payoffs[n] > rr.payoffs[o]

\* a recorded round of a three-player game with a non-default multiplier in
\* which one agent defected among two cooperators
PublicGoodsWitness ==
    /\ match.game = PG
    /\ Len(match.players) = 3
    /\ games[PG].multiplier10 # DefaultMultiplier10
    /\ \E i \in 1..Len(match.round_results) :
          LET c == match.round_results[i].contributions
          IN  /\ c["a"] = PGLow
              /\ c["b"] = PGHigh
              /\ c["c"] = PGHigh
              /\ match.round_results[i].payoffs["a"]
                     > match.round_results[i].payoffs["b"]

\* a recorded round of a two-player game in which both contributed 80%
PublicGoodsAllCooperateWitness ==
    /\ match.game = PG
    /\ \E i \in 1..Len(match.round_results) :
          \A n \in Range(match.players) :
              match.round_results[i].contributions[n] = PGHigh

(***************************************************************************)
(* GameCoordinator (coordinator.py).  The frame of a run_tournament or     *)
(* run_experiment call holds the arguments, the loop variables and the     *)
(* locals; match_log holds the "Match k/total: a vs b (rep r)" lines and   *)
(* error_log the match numbers of the "Error in match k" lines.            *)
(***************************************************************************)
\* num_rounds of the coordination experiment's ExperimentConfig
LongGame == 10

IdleTour(config) ==
    [ pc |-> "idle", config |-> config, op |-> "none", game_types |-> << >>,
      gi |-> 0, agent_names |-> << >>, i |-> 0, j |-> 0, rep |-> 0,
      match_count |-> 0, total_matches |-> 0, results |-> << >>,
      match_log |-> << >>, error_log |-> {}, experiment_results |-> EmptyDict,
      reward_matrix |-> NoMatrix ]

\* len(agent_names) * (len(agent_names) - 1) // 2 * num_repetitions
TotalMatches(n, num_repetitions) == ((n * (n - 1)) \div 2) * num_repetitions

\* run_tournament, lines 253-271: the locals before the first match
BeginTournament(t, op, game_types, gi) ==
    [ t EXCEPT
        !.pc = "tournament", !.op = op, !.game_types = game_types, !.gi = gi,
        !.agent_names = registry, !.i = 1, !.j = 2, !.rep = 1,
        !.match_count = 0,
        !.total_matches = TotalMatches(Len(registry), t.config.num_repetitions),
        !.results = << >>, !.match_log = << >>, !.error_log = {} ]

\* what a run_tournament call hands back
TournamentReturn(t) ==
    [ op |-> "run_tournament", raised |-> FALSE,
      game_type |-> t.game_types[t.gi], num_rounds |-> t.config.num_rounds,
      num_repetitions |-> t.config.num_repetitions,
      agent_names |-> t.agent_names, results |-> t.results,
      match_log |-> t.match_log, error_log |-> t.error_log ]

\* ValueError("Need at least 2 agents for a tournament")
TournamentRaise(op) == [ op |-> op, raised |-> TRUE, agent_names |-> registry ]

\* the game types run_tournament is called with, and the config.game_types
\* run_experiment is called with
TourGames == {PD}
ExperimentGames == { <<KS, PD>>, <<PG, KS>> }

\* coordinator.run_tournament(game_type, num_rounds, num_repetitions)
CallRunTournament ==
    /\ tour.pc = "idle"
    /\ ncalls < MaxTopCalls
    /\ ncalls' = ncalls + 1
    /\ \E game_type \in TourGames :
          IF Len(registry) < 2
          THEN /\ lastCall' = TournamentRaise("run_tournament")
               /\ UNCHANGED tour
          ELSE /\ tour' = BeginTournament(tour, "run_tournament", <<game_type>>, 1)
               /\ UNCHANGED lastCall
    /\ UNCHANGED <<waiting, strategies, agents, registry, games, match, providers>>

\* run_experiment, lines 370-375: before the tournament of a game type, a
\* custom matrix of the config is written into the coordinator's Prisoner's
\* Dilemma game and its payoff calculator
InstallMatrix(gms, reward_matrix, game_type) ==
    IF reward_matrix # NoMatrix /\ game_type = PD
    THEN [gms EXCEPT ![PD].reward_matrix = reward_matrix]
    ELSE gms

\* coordinator.run_experiment(config), up to the first match of the first
\* tournament, with config.game_types and config.reward_matrix drawn from the
\* given sets
RunExperiment(game_type_choices, matrices) ==
    /\ tour.pc = "idle"
    /\ ncalls < MaxTopCalls
    /\ ncalls' = ncalls + 1
    /\ \E game_types \in game_type_choices, reward_matrix \in matrices :
          /\ games' = InstallMatrix(games, reward_matrix, game_types[1])
          /\ IF Len(registry) < 2
             THEN /\ lastCall' = TournamentRaise("run_experiment")
                  /\ UNCHANGED tour
             ELSE /\ tour' = [BeginTournament(tour, "run_experiment", game_types, 1)
                                EXCEPT !.experiment_results = EmptyDict,
                                       !.reward_matrix = reward_matrix]
                  /\ UNCHANGED lastCall
    /\ UNCHANGED <<waiting, strategies, agents, registry, match, providers>>

\* coordinator.run_experiment(config) with config.reward_matrix = None
CallRunExperiment == RunExperiment(ExperimentGames, {NoMatrix})

\* mutant: the coordinator resets the two agents before every match
FreshAgentsForMatch(ag, present) ==
    [n \in DOMAIN ag |-> IF n \in Range(present) THEN FreshAgentState ELSE ag[n]]

\* run_single_game does not touch the agents it looks up
AgentsForMatch(ag, present) == ag

\* run_tournament, lines 275-283, and run_single_game up to play_full_game: the
\* next match of the loops is counted, logged and started
StartMatch ==
    /\ tour.pc = "tournament"
    /\ tour.i < Len(tour.agent_names)
    /\ LET agent1  == tour.agent_names[tour.i]
           agent2  == tour.agent_names[tour.j]
           g       == tour.game_types[tour.gi]
           present == SelectSeq(<<agent1, agent2>>, LAMBDA n : n \in DOMAIN agents)
       IN  /\ tour' = [tour EXCEPT
                  !.pc = "match", !.match_count = @ + 1,
                  !.match_log = Append(@, <<agent1, agent2, tour.rep>>)]
           /\ IF Len(present) < 2
              THEN /\ match' = [NewMatchCall(g, present, tour.config.num_rounds)
                                  EXCEPT !.pc = "raised"]
                   /\ UNCHANGED <<waiting, strategies, agents, games>>
              ELSE /\ agents' = AgentsForMatch(agents, present)
                   /\ games' = [games EXCEPT ![g] = ResetGame(@)]
                   /\ match' = NewMatchCall(g, present, tour.config.num_rounds)
    /\ UNCHANGED <<waiting, strategies, registry, providers, lastCall, ncalls>>

\* result.additional_metrics.update({...})
WithMetadata(result, agent1, agent2, rep, match_count, total_matches) ==
    LET meta == [ tournament_match |-> <<agent1, agent2>>, repetition |-> rep,
                  match_number |-> match_count, total_matches |-> total_matches ]
        am   == result.additional_metrics
    IN  [ result EXCEPT !.additional_metrics =
            [k \in DOMAIN am \cup DOMAIN meta |->
                IF k \in DOMAIN meta THEN meta[k] ELSE am[k]] ]

\* mutant: the inner loop starts at the first agent: for j in range(n)
NextPositionAllOrdered(t) ==
    IF t.rep < t.config.num_repetitions THEN [t EXCEPT !.rep = @ + 1]
    ELSE IF t.j < Len(t.agent_names) THEN [t EXCEPT !.j = @ + 1, !.rep = 1]
    ELSE [t EXCEPT !.i = @ + 1, !.j = 1, !.rep = 1]

\* the loop variables after one more pass of
\* for i .. for j in range(i + 1, n) .. for rep in range(num_repetitions)
NextPosition(t) ==
    IF t.rep < t.config.num_repetitions THEN [t EXCEPT !.rep = @ + 1]
    ELSE IF t.j < Len(t.agent_names) THEN [t EXCEPT !.j = @ + 1, !.rep = 1]
    ELSE [t EXCEPT !.i = @ + 1, !.j = t.i + 2, !.rep = 1]

\* mutant: no try/except around run_single_game, a failed match ends the call
EndMatchPropagates ==
    /\ tour.pc = "match"
    /\ match.pc \in {"done", "raised"}
    /\ LET agent1 == tour.agent_names[tour.i]
           agent2 == tour.agent_names[tour.j]
           g      == tour.game_types[tour.gi]
           result == WithMetadata(match.result, agent1, agent2, tour.rep,
                                  tour.match_count, tour.total_matches)
       IN  IF match.pc = "done"
           THEN /\ tour' = [NextPosition(tour) EXCEPT
                               !.pc = "tournament", !.results = Append(@, result)]
                /\ games' = [games EXCEPT ![g].results_history =
                                [@ EXCEPT ![Len(@)] = result]]
                /\ UNCHANGED lastCall
           ELSE /\ tour' = [tour EXCEPT !.pc = "idle"]
                /\ lastCall' = TournamentRaise(tour.op)
                /\ UNCHANGED games
    /\ match' = NoMatch
    /\ UNCHANGED <<waiting, strategies, agents, registry, providers, ncalls>>

\* run_tournament, lines 285-310: the match returned or raised
EndMatch ==
    /\ tour.pc = "match"
    /\ match.pc \in {"done", "raised"}
    /\ LET agent1 == tour.agent_names[tour.i]
           agent2 == tour.agent_names[tour.j]
           g      == tour.game_types[tour.gi]
           result == WithMetadata(match.result, agent1, agent2, tour.rep,
                                  tour.match_count, tour.total_matches)
       IN  IF match.pc = "done"
           THEN /\ tour' = [NextPosition(tour) EXCEPT
                               !.pc = "tournament", !.results = Append(@, result)]
                \* the GameResult is the object the game keeps in results_history
                /\ games' = [games EXCEPT ![g].results_history =
                                [@ EXCEPT ![Len(@)] = result]]
           ELSE /\ tour' = [NextPosition(tour) EXCEPT
                               !.pc = "tournament",
                               !.error_log = @ \cup {tour.match_count}]
                /\ UNCHANGED games
    /\ match' = NoMatch
    /\ UNCHANGED <<waiting, strategies, agents, registry, providers, lastCall, ncalls>>

\* run_tournament returns; run_experiment stores the results and goes on to the
\* next game type or returns
EndTournament ==
    /\ tour.pc = "tournament"
    /\ tour.i >= Len(tour.agent_names)
    /\ lastCall' = TournamentReturn(tour)
    /\ LET stored == [tour EXCEPT !.experiment_results =
                         Put(@, tour.game_types[tour.gi], tour.results)]
       IN  tour' = IF tour.op = "run_experiment"
                   THEN IF tour.gi < Len(tour.game_types)
                        THEN BeginTournament(stored, tour.op, tour.game_types,
                                             tour.gi + 1)
                        ELSE [stored EXCEPT !.pc = "idle"]
                   ELSE [tour EXCEPT !.pc = "idle"]
    /\ games' = IF tour.op = "run_experiment" /\ tour.gi < Len(tour.game_types)
                THEN InstallMatrix(games, tour.reward_matrix,
                                   tour.game_types[tour.gi + 1])
                ELSE games
    /\ UNCHANGED <<waiting, strategies, agents, registry, match, providers, ncalls>>

\* mutant: the reputation is left as it is
ResetAgentStateKeepsReputation(st) ==
    [st EXCEPT
        !.trust_scores = EmptyDict, !.knowledge_base = << >>,
        !.cooperation_history = << >>, !.payoff_history = << >>]

\* the body of the loop of reset_all_agents, for one agent
ResetAgentState(st) ==
    [st EXCEPT
        !.trust_scores = EmptyDict, !.knowledge_base = << >>,
        !.cooperation_history = << >>, !.payoff_history = << >>,
        !.reputation = <<1, 2>>]

\* coordinator.reset_all_agents()
ResetAllAgents ==
    /\ tour.pc = "idle"
    /\ ncalls < MaxTopCalls
    /\ ncalls' = ncalls + 1
    /\ agents' = [n \in DOMAIN agents |-> ResetAgentState(agents[n])]
    /\ lastCall' = [op |-> "reset_all_agents"]
    /\ UNCHANGED <<waiting, strategies, registry, games, match, tour, providers>>

(***************************************************************************)
(* SpecTournament: a coordinator with one to three registered agents, each *)
(* behind a provider that always cooperates, always defects or plays       *)
(* tit-for-tat, driven by run_tournament, run_experiment and               *)
(* reset_all_agents calls with one configuration of rounds and             *)
(* repetitions.                                                            *)
(***************************************************************************)
Lineups ==
    { <<"always_cooperate">>,
      <<"always_cooperate", "always_defect">>,
      <<"always_defect", "always_cooperate">>,
      <<"always_cooperate", "always_cooperate">>,
      <<"tit_for_tat", "always_defect">>,
      <<"competitive", "always_cooperate">>,
      <<"always_cooperate", "competitive">>,
      <<"always_defect", "always_cooperate", "always_cooperate">>,
      <<"always_cooperate", "tit_for_tat", "always_defect">> }

\* the rounds per match the configurations are explored with: 0..TourRounds, and
\* LongGame rounds for a single repetition between two agents
RoundChoices(lineup, num_repetitions) ==
    (0..TourRounds)
    \cup (IF Len(lineup) = 2 /\ num_repetitions = 1 THEN {LongGame} ELSE {})

TournamentInit ==
    /\ games    = InitializeGames
    /\ match    = NoMatch
    /\ lastCall = NoCall
    /\ ncalls   = 0
    /\ strategies = NoStrategies
    /\ waiting  = << >>
    /\ \E lineup \in Lineups, num_repetitions \in 1..TourReps :
         \E num_rounds \in RoundChoices(lineup, num_repetitions) :
            /\ registry  = SubSeq(NameOrder, 1, Len(lineup))
            /\ agents    = [n \in Range(registry) |-> FreshAgentState]
            /\ providers = [n \in Range(registry) |-> lineup[NameIndex(n)]]
            /\ tour = IdleTour([ num_rounds |-> num_rounds,
                                 num_repetitions |-> num_repetitions ])

TournamentNext ==
    \/ CallRunTournament \/ CallRunExperiment \/ ResetAllAgents
    \/ StartMatch \/ EndMatch \/ EndTournament
    \/ BeginFullGame
    \/ PDStartRound \/ PDDecide \/ PDCommit \/ PDFinish
    \/ PGStartRound \/ PGAsk \/ PGCommit \/ PGFinish
    \/ KSStartRound \/ KSAsk \/ KSCommit \/ KSFinish

SpecTournament == TournamentInit /\ [][TournamentNext]_vars

(***************************************************************************)
(* C1: every match starts with fresh per-match game state.  Whenever the   *)
(* requests of a round have been built, the round number handed over is    *)
(* the number of the round within the match (1 in its first round) and the *)
(* opponent history handed to each provider holds exactly the opponent's   *)
(* actions of the rounds of this match played so far (none in the first    *)
(* round).                                                                 *)
(***************************************************************************)
MatchStartsFresh ==
    /\ (match.game = PD /\ match.pc \in {"gather", "commit"}) =>
          \A p \in 1..2 :
              LET me  == match.players[p]
                  opp == match.players[3 - p]
                  req == match.requests[me]
              IN  /\ req.round_number = match.played + 1
                  /\ req.opponent_history =
                         [r \in 1..match.played |->
                             match.round_results[r].actions[opp]]
    /\ (match.game \in {PG, KS} /\ match.pc \in {"ask", "commit"}) =>
          /\ games[match.game].round_number = match.played + 1
          /\ \A n \in DOMAIN match.requests :
                /\ match.requests[n].round_number = match.played + 1
                /\ match.requests[n].opponent_history = << >>

(***************************************************************************)
(* C6: a finished Prisoner's Dilemma game of N >= 1 rounds with the        *)
(* standard matrix between an always-cooperating and an always-defecting   *)
(* provider has cooperator payoff 0, defector payoff 5N, the defector as   *)
(* winner, and cooperation rates 1 for the cooperator and 0 for the        *)
(* defector.  CooperatorAgainstDefectorAnyN is the statement for every     *)
(* N >= 0.                                                                 *)
(***************************************************************************)
FinishedPD(kind1, kind2) ==
    /\ match.game = PD
    /\ match.pc = "done"
    /\ games[PD].reward_matrix = StandardMatrix
    /\ {providers[match.players[1]], providers[match.players[2]]} = {kind1, kind2}

CooperatorDefectorOutcome ==
    LET r == match.result
        c == CHOOSE n \in Range(match.players) : providers[n] = "always_cooperate"
        d == CHOOSE n \in Range(match.players) : providers[n] = "always_defect"
    IN  /\ r.payoffs[c] = 0
        /\ r.payoffs[d] = 5 * r.rounds * PayScale
        /\ r.winner = d
        /\ r.cooperation_rates[c] = <<1, 1>>
        /\ r.cooperation_rates[d] = <<0, 1>>

CooperatorAgainstDefector ==
    (FinishedPD("always_cooperate", "always_defect") /\ match.num_rounds >= 1)
        => CooperatorDefectorOutcome

CooperatorAgainstDefectorAnyN ==
    FinishedPD("always_cooperate", "always_defect") => CooperatorDefectorOutcome

\* a ten-round game between a defector and a cooperator has finished with 50 : 0
CooperatorAgainstDefectorWitness ==
    /\ FinishedPD("always_cooperate", "always_defect")
    /\ match.num_rounds = LongGame
    /\ \E d \in Range(match.players) :
          /\ providers[d] = "always_defect"
          /\ match.result.payoffs[d] = 5 * LongGame * PayScale
          /\ match.result.winner = d

(***************************************************************************)
(* C7: a finished Prisoner's Dilemma game of N > 0 rounds between two      *)
(* always-cooperating providers has payoff 3N for both, no winner, and     *)
(* mutual_cooperation_rate = 1 and pareto_efficiency = 1 in its metrics.   *)
(***************************************************************************)
MutualCooperationResult ==
    (FinishedPD("always_cooperate", "always_cooperate") /\ match.num_rounds > 0) =>
        LET r == match.result
        IN  /\ \A n \in Range(match.players) :
                  r.payoffs[n] = 3 * r.rounds * PayScale
            /\ r.winner = "None"
            /\ r.additional_metrics.game_summary.mutual_cooperation_rate = <<1, 1>>
            /\ r.additional_metrics.game_summary.pareto_efficiency = <<1, 1>>

\* the part of C7 that reads the match's own rounds
MutualCooperationPayoffs ==
    (FinishedPD("always_cooperate", "always_cooperate") /\ match.num_rounds > 0) =>
        /\ \A n \in Range(match.players) :
              match.result.payoffs[n] = 3 * match.result.rounds * PayScale
        /\ match.result.winner = "None"

(***************************************************************************)
(* C9: a run_tournament call with n registered agents and r repetitions    *)
(* that returns has attempted exactly n(n-1)/2 * r matches: every          *)
(* unordered pair of distinct registered agents r times, no agent against  *)
(* itself, no pair in both orders; and when no match failed the returned   *)
(* list has n(n-1)/2 * r results.  A call with fewer than two agents       *)
(* raises before any match.                                                *)
(***************************************************************************)
TimesPlayed(log, x, y) ==
    Cardinality({k \in 1..Len(log) : {log[k][1], log[k][2]} = {x, y}})

RoundRobinComplete ==
    /\ tour.pc # "idle" => tour.match_count = Len(tour.match_log)
    /\ (lastCall.op = "run_tournament" /\ lastCall.raised) =>
          Len(lastCall.agent_names) < 2
    /\ (lastCall.op = "run_tournament" /\ ~ lastCall.raised) =>
          LET names == lastCall.agent_names
              n     == Len(names)
              r     == lastCall.num_repetitions
              log   == lastCall.match_log
          IN  /\ n = Len(registry)
              /\ 2 * Len(log) = n * (n - 1) * r
              /\ \A x, y \in Range(names) : x # y => TimesPlayed(log, x, y) = r
              /\ \A k \in 1..Len(log) : log[k][1] # log[k][2]
              /\ \A k, l \in 1..Len(log) :
                    ~ (log[k][1] = log[l][2] /\ log[k][2] = log[l][1])
              /\ Len(lastCall.results) + Cardinality(lastCall.error_log) = Len(log)
              /\ lastCall.error_log = {} =>
                    2 * Len(lastCall.results) = n * (n - 1) * r

\* a tournament of three agents with two repetitions has returned six results
RoundRobinWitness ==
    /\ lastCall.op = "run_tournament"
    /\ ~ lastCall.raised
    /\ Len(lastCall.agent_names) = 3
    /\ lastCall.num_repetitions = 2
    /\ lastCall.error_log = {}
    /\ Len(lastCall.results) = 6

\* a tournament in which every match failed has returned an empty list
RoundRobinFailedWitness ==
    /\ lastCall.op = "run_tournament"
    /\ ~ lastCall.raised
    /\ lastCall.error_log # {}
    /\ lastCall.results = << >>

(***************************************************************************)
(* C10: no step of run_tournament, run_experiment or of a match clears or  *)
(* replaces an AgentState.  In every step other than reset_all_agents each *)
(* agent's payoff_history and cooperation_history keep their entries and   *)
(* grow only at the end, every trust entry stays, and the steps of the     *)
(* coordinator itself (starting and ending matches and tournaments) leave  *)
(* the agents as they are.                                                 *)
(***************************************************************************)
IsPrefix(s, t) == Len(s) <= Len(t) /\ SubSeq(t, 1, Len(s)) = s

AgentStatePreserved ==
    /\ \A n \in DOMAIN agents :
          /\ IsPrefix(agents[n].payoff_history, agents'[n].payoff_history)
          /\ IsPrefix(agents[n].cooperation_history, agents'[n].cooperation_history)
          /\ DOMAIN agents[n].trust_scores \subseteq DOMAIN agents'[n].trust_scores
    /\ tour' # tour => agents' = agents

AgentStatePersists == [][ResetAllAgents \/ AgentStatePreserved]_vars

\* the first match of an experiment's second game type starts with agents that
\* carry the histories and trust entries of the first game type
AgentStateCarriedWitness ==
    /\ tour.op = "run_experiment"
    /\ tour.gi = 2
    /\ tour.pc = "match"
    /\ match.pc = "call"
    /\ tour.match_count = 1
    /\ \A n \in Range(match.players) :
          /\ Len(agents[n].payoff_history) >= tour.config.num_rounds
          /\ agents[n].cooperation_history # << >>
          /\ \E o \in Range(match.players) \ {n} :
                o \in DOMAIN agents[n].trust_scores

\* reset_all_agents has just cleared agents that had played
ResetClearsWitness ==
    /\ lastCall.op = "reset_all_agents"
    /\ ncalls = 2
    /\ tour.pc = "idle"
    /\ tour.match_count > 0
    /\ Len(tour.results) > 0 /\ tour.results[1].rounds > 0
    /\ \A n \in DOMAIN agents : agents[n] = FreshAgentState

(***************************************************************************)
(* C11: a match that raises inside run_tournament does not end the call.   *)
(* run_tournament and run_experiment raise only for fewer than two         *)
(* registered agents; the results collected so far are exactly the matches *)
(* attempted and not failed, in order; a returned tournament has attempted *)
(* every scheduled match, whichever of them failed; and a returned         *)
(* experiment has stored a result list for every game type of its          *)
(* configuration, the empty list for a game type whose matches all failed. *)
(***************************************************************************)
\* the match numbers of the collected results, in order
MatchNumbers(results) ==
    [k \in 1..Len(results) |-> results[k].additional_metrics.match_number]

\* the numbers 1..n without those of failed, in increasing order
RECURSIVE Survivors(_, _)
Survivors(n, failed) ==
    IF n = 0 THEN << >>
    ELSE IF n \in failed THEN Survivors(n - 1, failed)
    ELSE Append(Survivors(n - 1, failed), n)

FailedMatchSkipped ==
    /\ (lastCall.op \in {"run_tournament", "run_experiment"} /\ lastCall.raised) =>
          Len(lastCall.agent_names) < 2
    /\ tour.pc = "tournament" =>
          /\ tour.error_log \subseteq 1..tour.match_count
          /\ MatchNumbers(tour.results) = Survivors(tour.match_count, tour.error_log)
    /\ (lastCall.op = "run_tournament" /\ ~ lastCall.raised) =>
          /\ 2 * Len(lastCall.match_log) =
                 Len(lastCall.agent_names) * (Len(lastCall.agent_names) - 1)
                     * lastCall.num_repetitions
          /\ MatchNumbers(lastCall.results) =
                 Survivors(Len(lastCall.match_log), lastCall.error_log)
    /\ (tour.op = "run_experiment" /\ tour.pc = "idle") =>
          /\ DOMAIN tour.experiment_results = Range(tour.game_types)
          /\ \A g \in Range(tour.game_types) :
                (g = PG /\ tour.config.num_rounds = 0)
                    <=> (tour.experiment_results[g] = << >>)

\* an experiment over Public Goods and Knowledge Sharing has returned: all six
\* Public Goods matches of three agents failed and the six Knowledge Sharing
\* matches that followed are in the results
FailedMatchSkippedWitness ==
    /\ tour.op = "run_experiment"
    /\ tour.pc = "idle"
    /\ tour.game_types = <<PG, KS>>
    /\ Len(tour.agent_names) = 3
    /\ tour.config.num_repetitions = 2
    /\ tour.experiment_results[PG] = << >>
    /\ Len(tour.experiment_results[KS]) = 6

(***************************************************************************)
(* C12: simultaneous moves in all three games.  While the decisions of a   *)
(* round are being obtained no AgentState and no field of a game object    *)
(* changes and a request already handed out stays as it is; each request   *)
(* of the N-player games is built from the round number alone; and the     *)
(* rest of the round starts only with a decision of every participant.  So *)
(* what a provider is called with in round k does not depend on any other  *)
(* round-k decision.                                                       *)
(***************************************************************************)
ObtainingDecisions == match.pc \in {"gather", "ask"}

SimultaneousMoves ==
    [][ ObtainingDecisions =>
          /\ agents' = agents
          /\ games' = games
          /\ \A n \in DOMAIN match.requests :
                /\ n \in DOMAIN match'.requests
                /\ match'.requests[n] = match.requests[n]
          /\ \A n \in DOMAIN match'.requests :
                match.game \in {PG, KS} =>
                    match'.requests[n] = GroupRequest(match.game, match.played + 1)
          /\ match'.pc = "commit" =>
                DOMAIN match'.decisions = Range(match.players)
      ]_vars

\* in round 1 of a three-player Knowledge Sharing game the first agent has
\* decided to share an item, the second is about to be asked, and neither of the
\* others holds the item
SimultaneousMovesWitness ==
    /\ match.game = KS
    /\ match.pc = "ask"
    /\ match.ask = 2
    /\ Len(match.players) = 3
    /\ LET first == match.players[1]
       IN  /\ match.decisions[first].action = SHARE_KNOWLEDGE
           /\ match.knowledge_shared[first] # << >>
           /\ \A n \in Range(match.players) \ {first} :
                 ~ InSeq(match.knowledge_shared[first][1], agents[n].knowledge_base)

(***************************************************************************)
(* C13: rounds are strictly sequential.  Whenever a play_full_game call on *)
(* a fresh game with fresh agents stands between rounds or has issued the  *)
(* requests of round k+1, everything round 1..k caused is in place: k      *)
(* round results, the game's history of k rounds, every participant's      *)
(* payoff_history and cooperation_history with the update_state calls of   *)
(* all k rounds, and every item transferred in those rounds in the         *)
(* receiver's knowledge_base.                                              *)
(***************************************************************************)
\* update_state calls one participant receives per round
UpdatesPerRound == IF match.game = KS THEN Len(match.players) - 1 ELSE 1

\* the items round result rr handed to participant n
ItemsHanded(rr, n) ==
    IF match.game = KS THEN rr.knowledge_received[n]
    ELSE IF match.game = PD
    THEN LET opp == CHOOSE o \in Range(match.players) : o # n
         IN  rr.decisions[opp].knowledge_to_share
    ELSE << >>

RoundsSequential ==
    match.pc \in {"round", "gather", "ask", "commit"} =>
        LET k  == match.played
            gm == games[match.game]
        IN  /\ Len(match.round_results) = k
            /\ gm.round_number = IF match.pc = "round" THEN k ELSE k + 1
            /\ match.game = PD =>
                  /\ Len(gm.game_history) = k
                  /\ \A r \in 1..k :
                        gm.game_history[r] =
                            << match.round_results[r].actions[match.players[1]],
                               match.round_results[r].actions[match.players[2]] >>
            /\ match.game = PG =>
                  /\ Len(gm.contribution_history) = k
                  /\ \A r \in 1..k :
                        gm.contribution_history[r] = match.round_results[r].contributions
            /\ \A n \in Range(match.players) :
                  /\ Len(agents[n].payoff_history) = k * UpdatesPerRound
                  /\ Len(agents[n].cooperation_history) = k * UpdatesPerRound
                  /\ \A r \in 1..k :
                        /\ agents[n].payoff_history[r * UpdatesPerRound]
                               = match.round_results[r].payoffs[n]
                        /\ \A i \in 1..Len(ItemsHanded(match.round_results[r], n)) :
                              InSeq(ItemsHanded(match.round_results[r], n)[i],
                                    agents[n].knowledge_base)

\* the requests of round 2 of a Prisoner's Dilemma are out; the item the first
\* agent attached in round 1 is in the second agent's knowledge_base and the
\* game history holds round 1
RoundsSequentialWitness ==
    /\ match.game = PD
    /\ match.pc = "gather"
    /\ match.played = 1
    /\ DOMAIN match.requests = Range(match.players)
    /\ Len(games[PD].game_history) = 1
    /\ LET given == match.round_results[1].decisions[match.players[1]].knowledge_to_share
       IN  /\ given # << >>
           /\ InSeq(given[1], agents[match.players[2]].knowledge_base)
    /\ Len(agents[match.players[1]].payoff_history) = 1

(***************************************************************************)
(* C14: after reset() on any of the three games the round counter is 0,    *)
(* results_history is empty, the game's own round history is empty         *)
(* (game_history of the Prisoner's Dilemma, contribution_history of Public *)
(* Goods), and no AgentState has changed.  Stated over the steps that      *)
(* call reset(): the start of play_full_game and run_single_game.          *)
(***************************************************************************)
ResetStep ==
    \/ match.pc = "call" /\ match'.pc = "round"
    \/ tour.pc = "tournament" /\ tour'.pc = "match" /\ match'.pc = "call"

ResetLeavesGameEmpty ==
    [][ ResetStep =>
          LET gm == games'[match'.game]
          IN  /\ gm.round_number = 0
              /\ gm.results_history = << >>
              /\ match'.game = PD => gm.game_history = << >>
              /\ match'.game = PG => gm.contribution_history = << >>
              /\ agents' = agents
      ]_vars

\* the part of C14 that concerns the fields of BaseGame and the agents
ResetClearsBaseFields ==
    [][ ResetStep =>
          /\ games'[match'.game].round_number = 0
          /\ games'[match'.game].results_history = << >>
          /\ agents' = agents
      ]_vars

(***************************************************************************)
(* C15: reset_all_agents is total and idempotent.  Every reset_all_agents  *)
(* step leaves every registered agent with the state of a freshly created  *)
(* AgentState (empty trust_scores, knowledge_base, cooperation_history and *)
(* payoff_history, reputation 0.5), and resetting the resulting agents     *)
(* once more changes nothing.                                              *)
(***************************************************************************)
ResetIdempotent ==
    [][ ResetAllAgents =>
          /\ DOMAIN agents' = Range(registry)
          /\ \A n \in Range(registry) : agents'[n] = FreshAgentState
          /\ [n \in DOMAIN agents' |-> ResetAgentState(agents'[n])] = agents'
      ]_vars

(***************************************************************************)
(* C16: configuration errors fail fast with no partial game state.  A      *)
(* play_full_game call that has left its entry with a number of            *)
(* participants the game does not admit (other than 2 for the Prisoner's   *)
(* Dilemma, fewer than 2 for the N-player games) has raised, and the round *)
(* counter, the game's histories and every AgentState are as before the    *)
(* call.                                                                   *)
(***************************************************************************)
WrongParticipants ==
    \/ match.game = PD /\ Len(match.players) # 2
    \/ match.game \in {PG, KS} /\ Len(match.players) < 2

NothingPlayed ==
    /\ games[match.game].round_number = 0
    /\ games[match.game].results_history = << >>
    /\ match.game = PD => games[PD].game_history = << >>
    /\ match.game = PG => games[PG].contribution_history = << >>
    /\ \A n \in DOMAIN agents : agents[n] = FreshAgentState

ConfigurationErrorsFailFast ==
    (WrongParticipants /\ match.pc \notin {"idle", "call"}) =>
        /\ match.pc = "raised"
        /\ NothingPlayed

\* the part of C16 that concerns the Prisoner's Dilemma
PDWrongParticipantsFailFast ==
    (match.game = PD /\ Len(match.players) # 2 /\ match.pc \notin {"idle", "call"}) =>
        /\ match.pc = "raised"
        /\ NothingPlayed

(***************************************************************************)
(* SpecHang: one play_full_game call of two fresh agents on a fresh game,  *)
(* each agent behind a provider that always cooperates, always defects,    *)
(* plays tit-for-tat or never returns.  The event loop runs whatever can   *)
(* run: weak fairness of the steps of the call.                            *)
(***************************************************************************)
HangKinds == {"always_cooperate", "always_defect", "tit_for_tat", "never_returns"}

HangInit ==
    /\ registry = <<"a", "b">>
    /\ agents   = [n \in {"a", "b"} |-> FreshAgentState]
    /\ games    = InitializeGames
    /\ tour     = NoTour
    /\ lastCall = NoCall
    /\ ncalls   = 0
    /\ strategies = NoStrategies
    /\ waiting  = << >>
    /\ providers \in [{"a", "b"} -> HangKinds]
    /\ \E g \in GameType, num_rounds \in 1..GameRounds :
          match = NewMatchCall(g, <<"a", "b">>, num_rounds)

SpecHang == HangInit /\ [][GameNext]_vars /\ WF_vars(GameNext)

(***************************************************************************)
(* C17: every decision-provider call is bounded: also when a provider      *)
(* never returns, play_full_game eventually completes all num_rounds       *)
(* rounds and returns a GameResult.                                        *)
(***************************************************************************)
FullGameCompletes ==
    <>(match.pc = "done" /\ Len(match.round_results) = match.num_rounds)

\* the same for the calls in which every provider returns
AllReturn == \A n \in DOMAIN providers : providers[n] # "never_returns"

FullGameCompletesIfAllReturn == AllReturn => FullGameCompletes

(***************************************************************************)
(* Strategies (strategies.py).  A strategy object is the record of its     *)
(* fields; opponent_ever_defected is the field only Grudger has and only   *)
(* Grudger's methods touch.  "None" stands for opponent_last_action=None.  *)
(***************************************************************************)
StrategyClasses == {"TitForTat", "Grudger", "Pavlov", "Adaptive"}

\* BaseStrategy.__init__ and Grudger.__init__
NewStrategy ==
    [ history |-> << >>, opponent_history |-> << >>, payoff_history |-> << >>,
      opponent_ever_defected |-> FALSE ]

\* mutant: the answer mirrors the recorded opponent history when there is one
TitForTatDecideFromHistory(self, round_number, opponent_last_action) ==
    LET seen == IF Len(self.opponent_history) > 0
                THEN self.opponent_history[Len(self.opponent_history)]
                ELSE opponent_last_action
    IN  [ self   |-> self,
          result |-> IF round_number = 0 \/ seen = "None" THEN COOPERATE
                     ELSE IF seen \in {COOPERATE, SHARE_KNOWLEDGE} THEN COOPERATE
                     ELSE DEFECT ]

\* TitForTat.decide(round_number, opponent_last_action)
TitForTatDecide(self, round_number, opponent_last_action) ==
    [ self   |-> self,
      result |-> IF round_number = 0 \/ opponent_last_action = "None"
                 THEN COOPERATE
                 ELSE IF opponent_last_action \in {COOPERATE, SHARE_KNOWLEDGE}
                 THEN COOPERATE
                 ELSE DEFECT ]

\* mutant: the grudge lasts for the current call only
GrudgerDecideForgiving(self, round_number, opponent_last_action) ==
    [ self   |-> self,
      result |-> IF opponent_last_action \in {DEFECT, WITHHOLD_KNOWLEDGE}
                 THEN DEFECT ELSE COOPERATE ]

\* Grudger.decide(round_number, opponent_last_action)
GrudgerDecide(self, round_number, opponent_last_action) ==
    LET marked == IF opponent_last_action \in {DEFECT, WITHHOLD_KNOWLEDGE}
                  THEN [self EXCEPT !.opponent_ever_defected = TRUE]
                  ELSE self
    IN  [ self   |-> marked,
          result |-> IF marked.opponent_ever_defected THEN DEFECT ELSE COOPERATE ]

\* Pavlov(win_threshold): the threshold is kept in halves of a payoff point
\* (2.5, the default, and 3.0, the payoff of mutual cooperation)
DefaultWinThreshold2 == 5
WinThresholds2 == {DefaultWinThreshold2, 6}

\* Pavlov.__init__
NewPavlov(win_threshold2) ==
    [ history |-> << >>, opponent_history |-> << >>, payoff_history |-> << >>,
      win_threshold2 |-> win_threshold2, last_action |-> COOPERATE ]

\* DEFECT if last_action == COOPERATE else COOPERATE
Shift(action) == IF action = COOPERATE THEN DEFECT ELSE COOPERATE

\* mutant: a payoff equal to the threshold counts as a loss
PavlovDecideStrict(self, round_number, opponent_last_action) ==
    IF round_number = 0
    THEN [ self |-> [self EXCEPT !.last_action = COOPERATE], result |-> COOPERATE ]
    ELSE IF self.payoff_history # << >>
    THEN LET last_payoff == self.payoff_history[Len(self.payoff_history)]
             action == IF 2 * last_payoff > self.win_threshold2
                       THEN self.last_action ELSE Shift(self.last_action)
         IN  [ self |-> [self EXCEPT !.last_action = action], result |-> action ]
    ELSE [ self |-> self, result |-> self.last_action ]

\* Pavlov.decide(round_number, opponent_last_action)
PavlovDecide(self, round_number, opponent_last_action) ==
    IF round_number = 0
    THEN [ self |-> [self EXCEPT !.last_action = COOPERATE], result |-> COOPERATE ]
    ELSE IF self.payoff_history # << >>
    THEN LET last_payoff == self.payoff_history[Len(self.payoff_history)]
             action == IF 2 * last_payoff >= self.win_threshold2
                       THEN self.last_action ELSE Shift(self.last_action)
         IN  [ self |-> [self EXCEPT !.last_action = action], result |-> action ]
    ELSE [ self |-> self, result |-> self.last_action ]

\* Adaptive: cooperation_probability is kept in units of 1/ProbScale, which
\* makes every step of the explored learning rates a whole number;
\* learning_rate is kept in tenths (0.1, the default, 0.5 as in
\* test_adaptive_learning, and 1.0)
ProbScale == 12 * 100
DefaultLearningRate10 == 1
LearningRates10 == {DefaultLearningRate10, 5, 10}
AdaptiveWindow == 5

\* Adaptive.__init__
NewAdaptive(learning_rate10) ==
    [ history |-> << >>, opponent_history |-> << >>, payoff_history |-> << >>,
      learning_rate10 |-> learning_rate10,
      cooperation_probability |-> ProbScale \div 2 ]

\* number of cooperative actions in a list
CooperativeCount(actions) ==
    Cardinality({i \in 1..Len(actions) : IsCooperative(actions[i])})

\* cooperation_probability + learning_rate * 0.1
AdaptiveRaised(self) ==
    self.cooperation_probability + (ProbScale \div 100) * self.learning_rate10

\* cooperation_probability + (opponent_cooperation_rate - 0.5) * learning_rate
AdaptiveAdjusted(self) ==
    LET recent == LastN(self.opponent_history, AdaptiveWindow)
        n      == Len(recent)
        k      == CooperativeCount(recent)
    IN  self.cooperation_probability
          + ((2 * k - n) * (ProbScale \div 20) * self.learning_rate10) \div n

\* max(0.0, min(1.0, p))
ClampProbability(p) == Max(0, Min(ProbScale, p))

\* mutant: every average that is not above 3.0 is adjusted by the opponent's
\* cooperation rate
AdaptiveProbabilityNoDeadBand(self) ==
    LET recent == LastN(self.payoff_history, AdaptiveWindow)
        n      == Len(recent)
        total  == SumSeq(recent)
    IN  ClampProbability(
          IF n = 0 THEN self.cooperation_probability
          ELSE IF total > 3 * n THEN AdaptiveRaised(self)
          ELSE IF self.opponent_history # << >> THEN AdaptiveAdjusted(self)
          ELSE self.cooperation_probability)

\* Adaptive.decide for round_number > 0, up to the clamp: the new
\* cooperation_probability
AdaptiveProbability(self) ==
    LET recent == LastN(self.payoff_history, AdaptiveWindow)
        n      == Len(recent)
        total  == SumSeq(recent)
    IN  ClampProbability(
          IF n = 0 THEN self.cooperation_probability
          ELSE IF total > 3 * n THEN AdaptiveRaised(self)
          ELSE IF total < 2 * n /\ self.opponent_history # << >>
          THEN AdaptiveAdjusted(self)
          ELSE self.cooperation_probability)

\* Adaptive.decide(round_number, opponent_last_action): what the call may
\* return.  With the default exploration_rate of 0.1 both actions can come
\* out of the random draws whatever the probability is.
AdaptiveDecide(self, round_number, opponent_last_action) ==
    IF round_number = 0
    THEN { [ self |-> self, result |-> COOPERATE ] }
    ELSE { [ self   |-> [self EXCEPT
                            !.cooperation_probability = AdaptiveProbability(self)],
             result |-> action ] : action \in {COOPERATE, DEFECT} }

\* the freshly constructed objects of a class
NewStrategies(class) ==
    CASE class = "Pavlov"   -> { NewPavlov(t) : t \in WinThresholds2 }
      [] class = "Adaptive" -> { NewAdaptive(r) : r \in LearningRates10 }
      [] OTHER              -> { NewStrategy }

\* strategy.decide of the object's class, for the classes without random draws
Decide(class, self, round_number, opponent_last_action) ==
    CASE class = "Grudger" -> GrudgerDecide(self, round_number, opponent_last_action)
      [] class = "Pavlov"  -> PavlovDecide(self, round_number, opponent_last_action)
      [] OTHER             -> TitForTatDecide(self, round_number, opponent_last_action)

\* strategy.decide of the object's class: the outcomes of the call
DecideOutcomes(class, self, round_number, opponent_last_action) ==
    IF class = "Adaptive"
    THEN AdaptiveDecide(self, round_number, opponent_last_action)
    ELSE { Decide(class, self, round_number, opponent_last_action) }

\* BaseStrategy.update_history(my_action, opponent_action, my_payoff)
UpdateHistory(self, my_action, opponent_action, my_payoff) ==
    [self EXCEPT !.history          = Append(@, my_action),
                 !.opponent_history = Append(@, opponent_action),
                 !.payoff_history   = Append(@, my_payoff)]

\* BaseStrategy.reset()
BaseStrategyReset(self) ==
    [self EXCEPT !.history = << >>, !.opponent_history = << >>,
                 !.payoff_history = << >>]

\* Grudger.reset(): super().reset() and the grudge is dropped
GrudgerReset(self) ==
    [BaseStrategyReset(self) EXCEPT !.opponent_ever_defected = FALSE]

\* strategy.reset() of the object's class
StrategyReset(class, self) ==
    IF class = "Grudger" THEN GrudgerReset(self) ELSE BaseStrategyReset(self)

(***************************************************************************)
(* SpecStrategy: one strategy object, TitForTat, Grudger, Pavlov or        *)
(* Adaptive, and any sequence of decide / update_history / reset calls on  *)
(* it.  calls is the log of the calls made on the object with what each    *)
(* returned.                                                               *)
(***************************************************************************)
MaxStrategyCalls == 3

\* round numbers and last opponent actions passed to decide
RoundNumbers == {0, 1, 2}
LastActions  == AgentAction \cup {"None"}

StrategyInit ==
    /\ registry = NameOrder
    /\ agents   = [n \in {} |-> FreshAgentState]
    /\ games    = InitializeGames
    /\ match    = NoMatch
    /\ tour     = NoTour
    /\ providers = [n \in {} |-> "none"]
    /\ lastCall = NoCall
    /\ ncalls   = 0
    /\ waiting  = << >>
    /\ \E class \in StrategyClasses : \E new \in NewStrategies(class) :
          strategies = [c \in {class} |-> [self |-> new, calls |-> << >>]]

\* strategy.decide(round_number, opponent_last_action)
CallDecide ==
    /\ ncalls < MaxStrategyCalls
    /\ \E class \in DOMAIN strategies, round_number \in RoundNumbers,
          opponent_last_action \in LastActions :
          \E d \in DecideOutcomes(class, strategies[class].self, round_number,
                                  opponent_last_action) :
              strategies' = [strategies EXCEPT ![class] =
                  [ self  |-> d.self,
                    calls |-> Append(@.calls,
                                [ op |-> "decide", round_number |-> round_number,
                                  opponent_last_action |-> opponent_last_action,
                                  result |-> d.result ]) ]]
    /\ ncalls' = ncalls + 1
    /\ UNCHANGED <<waiting, agents, registry, games, match, tour, providers, lastCall>>

\* strategy.update_history(my_action, opponent_action, my_payoff) after a
\* round of the standard game
CallUpdateHistory ==
    /\ ncalls < MaxStrategyCalls
    /\ \E class \in DOMAIN strategies, my_action \in {COOPERATE, DEFECT},
          opponent_action \in {COOPERATE, DEFECT} :
          strategies' = [strategies EXCEPT ![class] =
              [ self  |-> UpdateHistory(@.self, my_action, opponent_action,
                              GetPayoffs(StandardMatrix, my_action,
                                         opponent_action)[1]),
                calls |-> Append(@.calls, [op |-> "update_history"]) ]]
    /\ ncalls' = ncalls + 1
    /\ UNCHANGED <<waiting, agents, registry, games, match, tour, providers, lastCall>>

\* strategy.reset()
CallStrategyReset ==
    /\ ncalls < MaxStrategyCalls
    /\ \E class \in DOMAIN strategies :
          strategies' = [strategies EXCEPT ![class] =
              [ self  |-> StrategyReset(class, @.self),
                calls |-> Append(@.calls, [op |-> "reset"]) ]]
    /\ ncalls' = ncalls + 1
    /\ UNCHANGED <<waiting, agents, registry, games, match, tour, providers, lastCall>>

StrategyNext == CallDecide \/ CallUpdateHistory \/ CallStrategyReset

SpecStrategy == StrategyInit /\ [][StrategyNext]_vars

\* the decide calls logged for the object of a class, if it is the one explored
CallsOn(class) ==
    IF class \in DOMAIN strategies THEN strategies[class].calls ELSE << >>

(***************************************************************************)
(* C18: Grudger is monotone.  A decide call returns DEFECT exactly when it *)
(* or an earlier decide call since the last reset() (since construction if *)
(* there was none) received DEFECT or WITHHOLD_KNOWLEDGE as                *)
(* opponent_last_action, whatever the round number and the later inputs;   *)
(* otherwise it returns COOPERATE.                                         *)
(***************************************************************************)
Provoked(calls, i) ==
    \E j \in 1..i :
        /\ calls[j].op = "decide"
        /\ calls[j].opponent_last_action \in {DEFECT, WITHHOLD_KNOWLEDGE}
        /\ \A k \in j..i : calls[k].op # "reset"

GrudgerMonotone ==
    LET calls == CallsOn("Grudger")
    IN  \A i \in 1..Len(calls) :
            calls[i].op = "decide" =>
                calls[i].result = IF Provoked(calls, i) THEN DEFECT ELSE COOPERATE

\* a decide call that received a defection, then one that received a
\* cooperative action and still answered DEFECT
GrudgerMonotoneWitness ==
    LET calls == CallsOn("Grudger")
    IN  \E j, i \in 1..Len(calls) :
            /\ j < i
            /\ calls[j].op = "decide"
            /\ calls[j].opponent_last_action = DEFECT
            /\ calls[i].op = "decide"
            /\ calls[i].opponent_last_action \in {COOPERATE, SHARE_KNOWLEDGE}
            /\ calls[i].result = DEFECT

\* a provoked Grudger was reset and then answered COOPERATE
GrudgerResetWitness ==
    LET calls == CallsOn("Grudger")
    IN  Len(calls) = 3
        /\ calls[1].op = "decide" /\ calls[1].result = DEFECT
        /\ calls[2].op = "reset"
        /\ calls[3].op = "decide" /\ calls[3].result = COOPERATE

(***************************************************************************)
(* C19: TitForTat is one round behind the opponent.  Every decide call     *)
(* returns COOPERATE at round 0 or when the last opponent action is        *)
(* unknown, and otherwise COOPERATE iff that action is COOPERATE or        *)
(* SHARE_KNOWLEDGE; the answer depends on the arguments of the call only,  *)
(* not on what update_history or earlier calls left in the object, so the  *)
(* opponent history [C, D, C] fed round by round to the object in any      *)
(* state yields [C, C, D, C].                                              *)
(***************************************************************************)
\* decide(0), decide(1, opp[1]), ..., decide(Len(opp), opp[Len(opp)]) on self
FeedRoundByRound(self, opp) ==
    [ r \in 1..(Len(opp) + 1) |->
        TitForTatDecide(self, r - 1, IF r = 1 THEN "None" ELSE opp[r - 1]).result ]

TitForTatOneRoundBehind ==
    LET calls == CallsOn("TitForTat")
    IN  /\ \A i \in 1..Len(calls) :
               calls[i].op = "decide" =>
                   calls[i].result =
                       IF \/ calls[i].round_number = 0
                          \/ calls[i].opponent_last_action = "None"
                          \/ IsCooperative(calls[i].opponent_last_action)
                       THEN COOPERATE ELSE DEFECT
        /\ \A i, j \in 1..Len(calls) :
               /\ calls[i].op = "decide" /\ calls[j].op = "decide"
               /\ calls[i].round_number = calls[j].round_number
               /\ calls[i].opponent_last_action = calls[j].opponent_last_action
               => calls[i].result = calls[j].result
        /\ "TitForTat" \in DOMAIN strategies =>
               FeedRoundByRound(strategies["TitForTat"].self,
                                <<COOPERATE, DEFECT, COOPERATE>>)
                   = <<COOPERATE, COOPERATE, DEFECT, COOPERATE>>

\* the object has recorded a cooperating opponent through update_history and
\* is then told, in a later round, that the opponent defected: it defects
TitForTatWitness ==
    LET calls == CallsOn("TitForTat")
    IN  /\ Len(calls) = 3
        /\ calls[1].op = "decide" /\ calls[1].round_number = 0
        /\ calls[1].result = COOPERATE
        /\ calls[2].op = "update_history"
        /\ strategies["TitForTat"].self.opponent_history = <<COOPERATE>>
        /\ calls[3].op = "decide" /\ calls[3].round_number = 1
        /\ calls[3].opponent_last_action = DEFECT
        /\ calls[3].result = DEFECT

(***************************************************************************)
(* SpecPayoff: a PrisonersDilemma game whose reward matrix is the standard *)
(* one or one loaded with RewardMatrix.from_dict, and get_payoffs /        *)
(* calculate_round_payoffs calls on it with any pair of actions.           *)
(***************************************************************************)
\* RewardMatrix.from_dict(data): every list becomes a tuple
FromDict(data) ==
    [ cooperate_cooperate |-> <<data.cooperate_cooperate[1], data.cooperate_cooperate[2]>>,
      cooperate_defect    |-> <<data.cooperate_defect[1], data.cooperate_defect[2]>>,
      defect_cooperate    |-> <<data.defect_cooperate[1], data.defect_cooperate[2]>>,
      defect_defect       |-> <<data.defect_defect[1], data.defect_defect[2]>> ]

\* dictionaries handed to from_dict: the cells of the standard matrix and of
\* the matrix of test_matrix_from_dict, in every combination
MatrixDicts ==
    [ cooperate_cooperate : {<<3, 3>>, <<2, 2>>},
      cooperate_defect    : {<<0, 5>>, <<0, 3>>},
      defect_cooperate    : {<<5, 0>>, <<3, 0>>},
      defect_defect       : {<<1, 1>>} ]

PayoffInit ==
    /\ registry = << >>
    /\ agents   = [n \in {} |-> FreshAgentState]
    /\ match    = NoMatch
    /\ tour     = NoTour
    /\ providers = [n \in {} |-> "none"]
    /\ lastCall = NoCall
    /\ ncalls   = 0
    /\ strategies = NoStrategies
    /\ waiting  = << >>
    /\ \E data \in MatrixDicts :
          games = [InitializeGames EXCEPT ![PD].reward_matrix = FromDict(data)]

\* game.reward_matrix.get_payoffs(action1, action2)
CallGetPayoffs ==
    /\ \E action1 \in AgentAction, action2 \in AgentAction :
          lastCall' = [ op |-> "get_payoffs", action1 |-> action1,
                        action2 |-> action2,
                        result |-> GetPayoffs(games[PD].reward_matrix,
                                              action1, action2) ]
    /\ UNCHANGED <<waiting, agents, registry, games, match, tour, providers, ncalls,
                   strategies>>

\* game.payoff_calculator.calculate_round_payoffs(agent1_action, agent2_action)
CallCalculateRoundPayoffs ==
    /\ \E action1 \in AgentAction, action2 \in AgentAction :
          lastCall' = [ op |-> "calculate_round_payoffs", action1 |-> action1,
                        action2 |-> action2,
                        result |-> CalculateRoundPayoffs(games[PD].reward_matrix,
                                                         action1, action2) ]
    /\ UNCHANGED <<waiting, agents, registry, games, match, tour, providers, ncalls,
                   strategies>>

\* longest action list handed to calculate_cooperation_rate
MaxActions == 3

SeqsUpTo(S, n) == UNION {[1..k -> S] : k \in 0..n}

\* game.payoff_calculator.calculate_cooperation_rate(actions); the method has
\* no raising path for a list of AgentAction values
CallCalculateCooperationRate ==
    /\ \E actions \in SeqsUpTo(AgentAction, MaxActions) :
          lastCall' = [ op |-> "calculate_cooperation_rate", actions |-> actions,
                        raised |-> FALSE,
                        result |-> CalculateCooperationRate(actions) ]
    /\ UNCHANGED <<waiting, agents, registry, games, match, tour, providers, ncalls,
                   strategies>>

PayoffNext ==
    CallGetPayoffs \/ CallCalculateRoundPayoffs \/ CallCalculateCooperationRate

SpecPayoff == PayoffInit /\ [][PayoffNext]_vars

(***************************************************************************)
(* C20: with the standard matrix, for every pair of actions (a, b) over    *)
(* the four action values get_payoffs(b, a) is get_payoffs(a, b) with its  *)
(* two components swapped, and every pair of actions of the same           *)
(* cooperative / non-cooperative classes (SHARE_KNOWLEDGE with COOPERATE,  *)
(* WITHHOLD_KNOWLEDGE with DEFECT) gets the same payoffs.                  *)
(***************************************************************************)
PayoffsMirrorAndClass ==
    (lastCall.op = "get_payoffs" /\ games[PD].reward_matrix = StandardMatrix) =>
        LET rm == games[PD].reward_matrix
            a  == lastCall.action1
            b  == lastCall.action2
            r  == lastCall.result
        IN  /\ GetPayoffs(rm, b, a) = <<r[2], r[1]>>
            /\ \A a2 \in AgentAction, b2 \in AgentAction :
                   (IsCooperative(a2) = IsCooperative(a)
                       /\ IsCooperative(b2) = IsCooperative(b))
                   => GetPayoffs(rm, a2, b2) = r

\* get_payoffs(SHARE_KNOWLEDGE, WITHHOLD_KNOWLEDGE) on the standard matrix
\* returned the sucker's payoff and the temptation
PayoffsMirrorWitness ==
    /\ games[PD].reward_matrix = StandardMatrix
    /\ lastCall.op = "get_payoffs"
    /\ lastCall.action1 = SHARE_KNOWLEDGE
    /\ lastCall.action2 = WITHHOLD_KNOWLEDGE
    /\ lastCall.result = <<0, 5>>

(***************************************************************************)
(* C21: calculate_cooperation_rate never raises; it returns 0.0 for an     *)
(* empty list, 1.0 for a non-empty list of cooperative actions only, and   *)
(* in general (number of COOPERATE or SHARE_KNOWLEDGE entries) / (length), *)
(* a value in [0, 1].                                                      *)
(***************************************************************************)
CooperationRateContract ==
    lastCall.op = "calculate_cooperation_rate" =>
        LET actions == lastCall.actions
            r       == lastCall.result
            coop    == Cardinality({i \in 1..Len(actions) :
                           actions[i] \in {COOPERATE, SHARE_KNOWLEDGE}})
        IN  /\ ~lastCall.raised
            /\ r[2] > 0
            /\ 0 <= r[1] /\ r[1] <= r[2]
            /\ actions = << >> => r = <<0, 1>>
            /\ (actions # << >> /\ coop = Len(actions)) => r = <<1, 1>>
            /\ actions # << >> => r[1] * Len(actions) = coop * r[2]

\* two cooperative entries, one of them SHARE_KNOWLEDGE, out of three gave 2/3
CooperationRateWitness ==
    /\ lastCall.op = "calculate_cooperation_rate"
    /\ lastCall.actions = <<COOPERATE, DEFECT, SHARE_KNOWLEDGE>>
    /\ lastCall.result = <<2, 3>>

\* the empty list gave 0.0
CooperationRateEmptyWitness ==
    /\ lastCall.op = "calculate_cooperation_rate"
    /\ lastCall.actions = << >>
    /\ lastCall.result = <<0, 1>>

(***************************************************************************)
(* C22: in Prisoner's Dilemma the knowledge attached to a cooperative      *)
(* decision is in the opponent's knowledge base once the round is          *)
(* committed, whatever the trust scores between the two agents, and a      *)
(* non-cooperative decision leaves the opponent's knowledge base as it     *)
(* was.                                                                    *)
(***************************************************************************)
PDCommitStep ==
    /\ match.pc = "commit"
    /\ match.game = PD
    /\ match'.played = match.played + 1

PDCooperativeKnowledgeTransfers ==
    [][PDCommitStep =>
        \A i \in {1, 2} :
            LET n == match.players[i]
                m == match.players[3 - i]
                d == match.decisions[n]
            IN  IsCooperative(d.action) =>
                    Range(d.knowledge_to_share)
                        \subseteq Range(agents'[m].knowledge_base)]_vars

PDKnowledgeFollowsCooperation ==
    [][PDCommitStep =>
        \A i \in {1, 2} :
            LET n == match.players[i]
                m == match.players[3 - i]
                d == match.decisions[n]
            IN  IF IsCooperative(d.action)
                THEN Range(d.knowledge_to_share)
                         \subseteq Range(agents'[m].knowledge_base)
                ELSE agents'[m].knowledge_base = agents[m].knowledge_base]_vars

(***************************************************************************)
(* C23: CompetitiveAgent returns COOPERATE iff the context names an        *)
(* opponent and its trust score for that opponent is strictly greater than *)
(* 0.8, and DEFECT with no knowledge to share otherwise.  Hence, from      *)
(* fresh state against an opponent that cooperates every round, it defects *)
(* while its trust 0.5 + 0.1 per round played is at most 0.8 and           *)
(* cooperates in every round after that.                                   *)
(***************************************************************************)
\* the decisions of the running round are those made on the present states
Deciding == match.pc \in {"gather", "ask", "commit"}

CompetitiveNoOpponentWitness ==
    /\ match.game \in {PG, KS}
    /\ Deciding
    /\ \E n \in DOMAIN match.decisions :
          /\ providers[n] = "competitive"
          /\ match.decisions[n].action = DEFECT

(***************************************************************************)
(* C24: a decision failure in Prisoner's Dilemma is recovered locally.     *)
(* When the provider of one agent raises in a round, the decision the      *)
(* other agent's provider has returned for that round stays the other      *)
(* agent's decision, and only the failing agent gets the DEFECT fallback.  *)
(***************************************************************************)
PDFailureStep ==
    /\ match.pc = "gather"
    /\ match.game = PD
    /\ match'.error_log # match.error_log

PDFailureLocal ==
    [][PDFailureStep =>
        /\ \A e \in match'.error_log \ match.error_log :
               match'.decisions[e[2]] = Fallback(DEFECT)
        /\ \A n \in DOMAIN match.decisions :
               match'.decisions[n] = match.decisions[n]]_vars

\* the part that holds: the failing agent's decision is the DEFECT fallback
PDFailureFallback ==
    [][PDFailureStep =>
        \A e \in match'.error_log \ match.error_log :
            match'.decisions[e[2]] = Fallback(DEFECT)]_vars

(***************************************************************************)
(* C25: the GameResult of a Prisoner's Dilemma game of at least one round  *)
(* is computed over exactly that game's rounds: its metrics report         *)
(* total_rounds = num_rounds, each agent's metric total_payoff is the      *)
(* agent's entry of GameResult.payoffs and each metric cooperation rate is *)
(* the agent's entry of GameResult.cooperation_rates, for the first game   *)
(* on a game instance and for every later one.                             *)
(***************************************************************************)
PDResultOverOwnRounds ==
    (match.game = PD /\ match.pc = "done" /\ match.num_rounds > 0) =>
        LET r  == match.result
            am == r.additional_metrics
        IN  /\ am.game_summary.total_rounds = match.num_rounds
            /\ \A n \in Range(match.players) :
                  /\ am.per_agent[n].total_payoff = r.payoffs[n]
                  /\ am.per_agent[n].cooperation_rate = r.cooperation_rates[n]

\* the same for the first game played on a game instance only
PDFirstResultOverOwnRounds ==
    (Len(games[PD].game_history) = match.played) => PDResultOverOwnRounds

(***************************************************************************)
(* SpecConcurrent: two run_single_game calls for the Prisoner's Dilemma on *)
(* one coordinator, on the disjoint pairs a, b and c, d, running as two    *)
(* tasks of one event loop.  Both calls get the coordinator's one          *)
(* PrisonersDilemma object.  A task runs until it awaits its providers     *)
(* (asyncio.gather in play_round) or returns; only there the other task    *)
(* may be resumed.                                                         *)
(***************************************************************************)
ConcurrentKinds == {"always_cooperate", "always_defect", "tit_for_tat"}

ConcurrentInit ==
    /\ registry = <<"a", "b", "c", "d">>
    /\ agents   = [n \in {"a", "b", "c", "d"} |-> FreshAgentState]
    /\ games    = InitializeGames
    /\ tour     = NoTour
    /\ lastCall = NoCall
    /\ ncalls   = 0
    /\ strategies = NoStrategies
    /\ providers \in [{"a", "b", "c", "d"} -> ConcurrentKinds]
    /\ \E n1 \in 1..GameRounds, n2 \in 1..GameRounds :
          /\ match   = NewMatchCall(PD, <<"a", "b">>, n1)
          /\ waiting = << NewMatchCall(PD, <<"c", "d">>, n2) >>

\* the event loop resumes the other task while this one awaits its providers
\* or has returned
SwitchTask ==
    /\ waiting # << >>
    /\ match.pc \in {"gather", "done", "raised"}
    /\ match'   = Head(waiting)
    /\ waiting' = Append(Tail(waiting), match)
    /\ UNCHANGED <<agents, registry, games, tour, providers, lastCall, ncalls,
                   strategies>>

ConcurrentNext ==
    \/ BeginFullGame
    \/ PDStartRound \/ PDDecide \/ PDCommit \/ PDFinish
    \/ SwitchTask

SpecConcurrent == ConcurrentInit /\ [][ConcurrentNext]_vars

(***************************************************************************)
(* C26: matches on disjoint agent pairs are independent under              *)
(* interleaving.  For each of two run_single_game calls in progress at the *)
(* same time: its recorded rounds are numbered 1, 2, ..., each provider is *)
(* handed the opponent's actions of this match only (so that decisions and *)
(* per-round payoffs are those of the match run alone), and the metrics of *)
(* its GameResult cover its own num_rounds rounds.                         *)
(***************************************************************************)
Frames == {match} \cup Range(waiting)

FrameIndependent(f) ==
    /\ \A r \in 1..Len(f.round_results) : f.round_results[r].round = r
    /\ f.pc \in {"gather", "commit"} =>
          \A i \in {1, 2} :
              f.requests[f.players[i]].opponent_history =
                  [r \in 1..Len(f.round_results) |->
                      f.round_results[r].actions[f.players[3 - i]]]
    /\ (f.pc = "done" /\ f.num_rounds > 0) =>
          f.result.additional_metrics.game_summary.total_rounds = f.num_rounds

ConcurrentMatchesIndependent ==
    \A f \in Frames : f.game = PD => FrameIndependent(f)

\* what does not depend on the shared game object: the payoffs of a recorded
\* round are those of the two actions recorded for it
ConcurrentRoundPayoffs ==
    \A f \in Frames :
        \A r \in 1..Len(f.round_results) :
            LET rr == f.round_results[r]
                p  == CalculateRoundPayoffs(games[PD].reward_matrix,
                          rr.actions[f.players[1]], rr.actions[f.players[2]])
            IN  /\ rr.payoffs[f.players[1]] = p[1]
                /\ rr.payoffs[f.players[2]] = p[2]

\* both calls are in progress: each has recorded a round and neither is done
ConcurrentInProgress ==
    /\ waiting # << >>
    /\ \A f \in Frames : f.pc \notin {"call", "done"} /\ Len(f.round_results) >= 1

(***************************************************************************)
(* C27: in every PublicGoodsGame round every agent's recorded contribution *)
(* is 80% or 20% of the endowment, also for an agent whose provider raised *)
(* (its fallback DEFECT counting as the 20% contribution), so every round  *)
(* payoff lies between 0.2E + 0.2E*m and 0.8E + 0.8E*m.                    *)
(***************************************************************************)
PGRounds == IF match.game = PG THEN match.round_results ELSE << >>

PGContributionLevels ==
    \A r \in 1..Len(PGRounds) :
        \A n \in Range(match.players) :
            /\ PGRounds[r].contributions[n] \in {PGHigh, PGLow}
            /\ 10 * PGRounds[r].payoffs[n] >= PGLow * (10 + games[PG].multiplier10)
            /\ 10 * PGRounds[r].payoffs[n] <= PGHigh * (10 + games[PG].multiplier10)

\* the part that holds: an agent whose provider returned a decision in the
\* round has one of the two contribution levels
PGReturnedContributionLevels ==
    \A r \in 1..Len(PGRounds) :
        \A n \in Range(match.players) :
            <<r, n>> \notin match.error_log =>
                PGRounds[r].contributions[n] \in {PGHigh, PGLow}

(***************************************************************************)
(* C28: the cooperative / non-cooperative class of an action, not its      *)
(* literal value, decides the payoffs.  In a recorded Prisoner's Dilemma   *)
(* round the payoffs are those of COOPERATE for a SHARE_KNOWLEDGE action   *)
(* and of DEFECT for a WITHHOLD_KNOWLEDGE action; in a recorded Public     *)
(* Goods round a returned decision of the cooperative class contributes    *)
(* 80% of the endowment, which is what the others' trust signal is taken   *)
(* from, and one of the other class 20%.                                   *)
(***************************************************************************)
ClassOf(action) == IF IsCooperative(action) THEN COOPERATE ELSE DEFECT

PDClassDecidesPayoffs ==
    match.game = PD =>
        \A r \in 1..Len(match.round_results) :
            LET rr == match.round_results[r]
                a1 == match.players[1]
                a2 == match.players[2]
                p  == CalculateRoundPayoffs(games[PD].reward_matrix,
                          ClassOf(rr.actions[a1]), ClassOf(rr.actions[a2]))
            IN  rr.payoffs[a1] = p[1] /\ rr.payoffs[a2] = p[2]

PGClassDecidesContributions ==
    \A r \in 1..Len(PGRounds) :
        \A n \in Range(match.players) :
            <<r, n>> \notin match.error_log =>
                PGRounds[r].contributions[n] =
                    IF IsCooperative(PGRounds[r].decisions[n].action)
                    THEN PGHigh ELSE PGLow

ClassDecidesPayoffs == PDClassDecidesPayoffs /\ PGClassDecidesContributions

\* the Prisoner's Dilemma part is exercised: a recorded round with a
\* SHARE_KNOWLEDGE action against a WITHHOLD_KNOWLEDGE action
PDClassWitness ==
    /\ match.game = PD
    /\ \E r \in 1..Len(match.round_results) :
          /\ match.round_results[r].actions[match.players[1]] = WITHHOLD_KNOWLEDGE
          /\ match.round_results[r].actions[match.players[2]] = SHARE_KNOWLEDGE

(***************************************************************************)
(* C29: in a recorded KnowledgeSharingGame round each agent's payoff is    *)
(* -sharing_cost * (number of items it shared) + knowledge_value * (number *)
(* of items it received), the received items being in its knowledge base,  *)
(* and an agent whose decision was WITHHOLD_KNOWLEDGE has shared nothing   *)
(* and paid nothing.                                                       *)
(***************************************************************************)
KSRounds == IF match.game = KS THEN match.round_results ELSE << >>

KSPayoffFormula ==
    \A r \in 1..Len(KSRounds) :
        \A n \in Range(match.players) :
            LET rr == KSRounds[r]
            IN  /\ rr.payoffs[n] =
                       - games[KS].sharing_cost * Len(rr.knowledge_shared[n])
                       + games[KS].knowledge_value * Len(rr.knowledge_received[n])
                /\ Range(rr.knowledge_received[n])
                       \subseteq Range(agents[n].knowledge_base)

KSWithholdSharesNothing ==
    \A r \in 1..Len(KSRounds) :
        \A n \in Range(match.players) :
            KSRounds[r].decisions[n].action = WITHHOLD_KNOWLEDGE =>
                /\ KSRounds[r].knowledge_shared[n] = << >>
                /\ KSRounds[r].payoffs[n] >= 0

KSPayoffRule == KSPayoffFormula /\ KSWithholdSharesNothing

\* a recorded round in which an agent paid for one item and received one
KSPayoffWitness ==
    \E r \in 1..Len(KSRounds) :
        \E n \in Range(match.players) :
            /\ Len(KSRounds[r].knowledge_shared[n]) = 1
            /\ Len(KSRounds[r].knowledge_received[n]) = 1
            /\ KSRounds[r].payoffs[n]
                   = games[KS].knowledge_value - games[KS].sharing_cost

(***************************************************************************)
(* C30: within one round of the Prisoner's Dilemma, the Public Goods game  *)
(* and the Knowledge Sharing game the decision requests of all             *)
(* participants are issued before any of them is awaited to completion:    *)
(* whenever a decision of the running round has come in, every participant *)
(* has been asked.                                                         *)
(***************************************************************************)
RequestsTogether(g) ==
    ( /\ match.game = g
      /\ match.pc \in {"gather", "ask", "commit"}
      /\ DOMAIN match.decisions # {} )
    => DOMAIN match.requests = Range(match.players)

RequestsInFlightTogether == \A g \in GameType : RequestsTogether(g)

\* the part that holds: the two requests of a Prisoner's Dilemma round
PDRequestsInFlightTogether == RequestsTogether(PD)

\* a Prisoner's Dilemma round in which one decision has come in while the
\* other request is still pending
PDInFlightWitness ==
    /\ match.game = PD
    /\ match.pc = "gather"
    /\ Cardinality(DOMAIN match.decisions) = 1
    /\ Cardinality(match.pending) = 1

(***************************************************************************)
(* C31: in every game and for any number of participants, one round        *)
(* appends exactly one entry to each participant's payoff_history, the     *)
(* payoff of that round, so that after k rounds of a game on fresh agents  *)
(* payoff_history has k entries, entry r is the payoff of round r, and     *)
(* reputation is the clamped mean of the payoffs of the last 10 rounds     *)
(* divided by 5.                                                           *)
(***************************************************************************)
BetweenRounds == match.pc \in {"round", "gather", "ask", "commit", "done"}

PayoffHistoryOnePerRound ==
    BetweenRounds =>
        \A n \in Range(match.players) :
            /\ Len(agents[n].payoff_history) = match.played
            /\ \A r \in 1..match.played :
                  agents[n].payoff_history[r] = match.round_results[r].payoffs[n]
            /\ match.played > 0 =>
                  agents[n].reputation =
                      Reputation([r \in 1..match.played |->
                                     match.round_results[r].payoffs[n]])

\* what holds: the Prisoner's Dilemma and the Public Goods game append one
\* entry per round, the Knowledge Sharing game one entry per other
\* participant, each of them that round's payoff
PayoffHistoryPerUpdate ==
    BetweenRounds =>
        \A n \in Range(match.players) :
            /\ Len(agents[n].payoff_history) = match.played * UpdatesPerRound
            /\ \A r \in 1..match.played : \A j \in 1..UpdatesPerRound :
                  agents[n].payoff_history[(r - 1) * UpdatesPerRound + j]
                      = match.round_results[r].payoffs[n]
            /\ agents[n].payoff_history # << >> =>
                  agents[n].reputation = Reputation(agents[n].payoff_history)

\* a three-party Knowledge Sharing game has finished its first round: every
\* participant's payoff_history has two entries
KSThreePartyRoundWitness ==
    /\ match.game = KS
    /\ Len(match.players) = 3
    /\ match.played = 1
    /\ match.pc = "round"
    /\ \A n \in Range(match.players) : Len(agents[n].payoff_history) = 2

(***************************************************************************)
(* SpecExperiment: a coordinator with two registered agents on which       *)
(* run_experiment is called several times, each call with its own          *)
(* ExperimentConfig: game types that end with the Prisoner's Dilemma, and  *)
(* either no reward matrix or the high_temptation matrix of                *)
(* experiments/prisoner_dilemma.py.                                        *)
(***************************************************************************)
\* reward_matrices["high_temptation"]
HighTemptationMatrix ==
    [ cooperate_cooperate |-> <<3, 3>>,
      cooperate_defect    |-> <<0, 7>>,
      defect_cooperate    |-> <<7, 0>>,
      defect_defect       |-> <<1, 1>> ]

\* config.reward_matrix and config.game_types of the explored calls
ExperimentMatrices == {NoMatrix, HighTemptationMatrix}
MatrixExperimentGames == { <<PD>>, <<KS, PD>>, <<PG, PD>> }

ExperimentLineups ==
    { <<"always_cooperate", "always_defect">>, <<"tit_for_tat", "always_defect">> }

ExperimentInit ==
    /\ games    = InitializeGames
    /\ match    = NoMatch
    /\ lastCall = NoCall
    /\ ncalls   = 0
    /\ strategies = NoStrategies
    /\ waiting  = << >>
    /\ registry = <<"a", "b">>
    /\ agents   = [n \in {"a", "b"} |-> FreshAgentState]
    /\ \E lineup \in ExperimentLineups, num_rounds \in 1..TourRounds :
          /\ providers = [n \in {"a", "b"} |-> lineup[NameIndex(n)]]
          /\ tour = IdleTour([num_rounds |-> num_rounds, num_repetitions |-> 1])

\* coordinator.run_experiment(config) with or without a custom matrix
CallRunExperimentMatrix == RunExperiment(MatrixExperimentGames, ExperimentMatrices)

ExperimentNext ==
    \/ CallRunExperimentMatrix
    \/ StartMatch \/ EndMatch \/ EndTournament
    \/ BeginFullGame
    \/ PDStartRound \/ PDDecide \/ PDCommit \/ PDFinish
    \/ PGStartRound \/ PGAsk \/ PGCommit \/ PGFinish
    \/ KSStartRound \/ KSAsk \/ KSCommit \/ KSFinish

SpecExperiment == ExperimentInit /\ [][ExperimentNext]_vars

(***************************************************************************)
(* C32: a custom reward matrix of an ExperimentConfig affects the          *)
(* Prisoner's Dilemma payoffs of that experiment only: every Prisoner's    *)
(* Dilemma round of an experiment whose config has no reward matrix is     *)
(* paid by the standard matrix, also when the coordinator ran an           *)
(* experiment with a custom matrix before.                                 *)
(***************************************************************************)
\* every recorded round of the Prisoner's Dilemma match in progress was paid
\* by matrix rm
PDRoundsPaidBy(rm) ==
    \A r \in 1..Len(match.round_results) :
        LET rr == match.round_results[r]
            p  == CalculateRoundPayoffs(rm, rr.actions[match.players[1]],
                                        rr.actions[match.players[2]])
        IN  /\ rr.payoffs[match.players[1]] = p[1]
            /\ rr.payoffs[match.players[2]] = p[2]

InExperimentPD ==
    /\ tour.pc = "match"
    /\ tour.op = "run_experiment"
    /\ match.game = PD

CustomMatrixThisExperimentOnly ==
    (InExperimentPD /\ tour.reward_matrix = NoMatrix) => PDRoundsPaidBy(StandardMatrix)

\* what holds: an experiment with a custom matrix is paid by it, and so is
\* every later experiment until another custom matrix is configured; only a
\* coordinator that never ran with a custom matrix pays the standard one
CustomMatrixOfExperiment ==
    (InExperimentPD /\ tour.reward_matrix # NoMatrix) =>
        PDRoundsPaidBy(tour.reward_matrix)

FirstExperimentStandardMatrix ==
    (InExperimentPD /\ tour.reward_matrix = NoMatrix /\ ncalls = 1) =>
        PDRoundsPaidBy(StandardMatrix)

\* the second experiment has no matrix in its config and its Prisoner's
\* Dilemma round between a cooperator and a defector paid 0 and 7
StaleMatrixWitness ==
    /\ InExperimentPD
    /\ tour.reward_matrix = NoMatrix
    /\ ncalls = 2
    /\ games[PD].reward_matrix = HighTemptationMatrix
    /\ match.round_results # << >>
    /\ match.round_results[1].payoffs = [a |-> 0, b |-> 7 * PayScale]

(***************************************************************************)
(* SpecRegistry: a coordinator with two registered agents on which         *)
(* register_agent (directly or through create_agent) and run_tournament    *)
(* are called, so that agents are registered under new and under existing  *)
(* names, before and after they have played.                               *)
(***************************************************************************)
RegistryKinds == {"always_cooperate", "always_defect"}

\* coordinator.register_agent(agent) with a newly constructed agent: the dict
\* assignment adds the name, or replaces the agent stored under it while the
\* key keeps its place in the dict's order
CallRegisterAgent ==
    /\ tour.pc = "idle"
    /\ ncalls < MaxTopCalls
    /\ ncalls' = ncalls + 1
    /\ \E name \in Names, kind \in RegistryKinds :
          /\ agents' = Put(agents, name, FreshAgentState)
          /\ providers' = Put(providers, name, kind)
          /\ registry' = IF name \in Range(registry) THEN registry
                         ELSE Append(registry, name)
          /\ lastCall' = [ op |-> "register_agent", raised |-> FALSE, name |-> name ]
    /\ UNCHANGED <<waiting, strategies, games, match, tour>>

RegistryInit ==
    /\ games    = InitializeGames
    /\ match    = NoMatch
    /\ lastCall = NoCall
    /\ ncalls   = 0
    /\ strategies = NoStrategies
    /\ waiting  = << >>
    /\ registry = <<"a", "b">>
    /\ agents   = [n \in {"a", "b"} |-> FreshAgentState]
    /\ providers \in [{"a", "b"} -> RegistryKinds]
    /\ \E num_rounds \in 1..TourRounds :
          tour = IdleTour([num_rounds |-> num_rounds, num_repetitions |-> 1])

RegistryNext ==
    \/ CallRegisterAgent \/ CallRunTournament
    \/ StartMatch \/ EndMatch \/ EndTournament
    \/ BeginFullGame
    \/ PDStartRound \/ PDDecide \/ PDCommit \/ PDFinish

SpecRegistry == RegistryInit /\ [][RegistryNext]_vars

(***************************************************************************)
(* C33: registering an agent under a name that is already in the registry  *)
(* is reported as an error and leaves the existing registration in place:  *)
(* the agent stored under the name, its AgentState and its provider are    *)
(* what they were before the call.                                         *)
(***************************************************************************)
RegisterStep == ncalls' = ncalls + 1 /\ lastCall'.op = "register_agent"

RegistrationNeverReplaces ==
    [][ (RegisterStep /\ lastCall'.name \in DOMAIN agents) =>
            /\ lastCall'.raised
            /\ agents' = agents
            /\ providers' = providers
            /\ registry' = registry ]_vars

\* what holds: register_agent never raises; the name ends up registered once,
\* with the new agent's fresh state and provider, and every other
\* registration is untouched
RegistrationOverwrites ==
    [][ RegisterStep =>
            LET name == lastCall'.name
            IN  /\ ~ lastCall'.raised
                /\ DOMAIN agents' = DOMAIN agents \cup {name}
                /\ agents'[name] = FreshAgentState
                /\ \A n \in DOMAIN agents \ {name} :
                      agents'[n] = agents[n] /\ providers'[n] = providers[n]
                /\ Range(registry') = DOMAIN agents'
                /\ Len(registry') = Cardinality(DOMAIN agents') ]_vars

\* agent a was registered again after a tournament: the payoff history it had
\* accumulated is gone while b's is kept
RegistrationReplacedWitness ==
    /\ lastCall.op = "register_agent"
    /\ lastCall.name = "a"
    /\ agents["a"] = FreshAgentState
    /\ agents["b"].payoff_history # << >>

(***************************************************************************)
(* C34: play_full_game goes from not started through num_rounds rounds to  *)
(* completed.  Provided every provider call returns or raises, the call    *)
(* plays exactly num_rounds rounds whose records are numbered              *)
(* 1..num_rounds in order and then returns a GameResult with               *)
(* rounds = num_rounds and one actions_history entry per participant per   *)
(* round, leaving the round counter at num_rounds; a provider that raises  *)
(* never makes the call raise.                                             *)
(***************************************************************************)
\* the participant check of PrisonersDilemma.play_full_game lets the call in
ParticipantsAccepted == match.game = PD => Len(match.players) = 2

FullGameRuns ==
    /\ match.pc = "raised" => ~ ParticipantsAccepted
    /\ match.pc \in {"round", "gather", "ask", "commit"} => CallGoesOn
    /\ BetweenRounds =>
          /\ match.played <= match.num_rounds
          /\ Len(match.round_results) = match.played
          /\ \A r \in 1..match.played : match.round_results[r].round = r
    /\ match.pc = "done" =>
          /\ match.played = match.num_rounds
          /\ match.result.rounds = match.num_rounds
          /\ games[match.game].round_number = match.num_rounds
          /\ Len(match.result.actions_history)
                 = match.num_rounds * Len(match.players)
          /\ \A n \in Range(match.players) :
                LET own == ActionsOf(match.result.actions_history, n)
                IN  /\ Len(own) = match.num_rounds
                    /\ \A r \in 1..match.num_rounds :
                          own[r] = match.round_results[r].decisions[n].action

\* what holds: the same for every call with at least one round, and for the
\* calls of the Prisoner's Dilemma and of Knowledge Sharing with no round
FullGameRunsWithRounds ==
    (match.num_rounds >= 1 \/ match.game # PG) => FullGameRuns

\* a Public Goods call with num_rounds = 0 raised after its empty loop of rounds
ZeroRoundsRaisedWitness ==
    /\ match.pc = "raised"
    /\ match.game = PG
    /\ match.num_rounds = 0
    /\ Len(match.players) = 2

\* a two-round Public Goods game in which a provider raised has returned its
\* GameResult
FullGameRunsWitness ==
    /\ match.pc = "done"
    /\ match.game = PG
    /\ match.num_rounds = 2
    /\ match.error_log # {}
    /\ match.result.rounds = 2
    /\ games[PG].round_number = 2

(***************************************************************************)
(* C35: Pavlov is win-stay/lose-shift over the sequence of its own         *)
(* decisions.  A decide call at round 0 returns COOPERATE; a decide call   *)
(* at a later round returns the action of the previous decision if the     *)
(* most recent recorded own payoff is at least win_threshold and the       *)
(* opposite action otherwise; the returned action is the remembered        *)
(* last_action.                                                            *)
(***************************************************************************)
\* the step is a decide call on the object of the class
DecideStep(class) ==
    /\ class \in DOMAIN strategies
    /\ Len(strategies'[class].calls) = Len(strategies[class].calls) + 1
    /\ strategies'[class].calls[Len(strategies'[class].calls)].op = "decide"

\* what the latest decide call of the log returned; COOPERATE, the initial
\* last_action, if there was none
RECURSIVE PreviousDecision(_)
PreviousDecision(calls) ==
    IF calls = << >> THEN COOPERATE
    ELSE IF calls[Len(calls)].op = "decide" THEN calls[Len(calls)].result
    ELSE PreviousDecision(SubSeq(calls, 1, Len(calls) - 1))

PavlovStayWitness ==
    LET calls == CallsOn("Pavlov")
    IN  /\ Len(calls) = 3
        /\ strategies["Pavlov"].self.win_threshold2 = 6
        /\ calls[1].op = "decide" /\ calls[1].round_number = 0
        /\ calls[2].op = "update_history"
        /\ strategies["Pavlov"].self.payoff_history = <<3>>
        /\ calls[3].op = "decide" /\ calls[3].round_number = 1
        /\ calls[3].result = COOPERATE

(***************************************************************************)
(* C36: Adaptive's cooperation_probability starts at 0.5.  At every decide *)
(* call for a round after 0 with recorded outcomes it is raised when the   *)
(* trailing 5-round average payoff is above 3.0 and is otherwise, for      *)
(* every average of 3.0 or less, moved toward the opponent's trailing      *)
(* cooperation rate by a step scaled by learning_rate, then clamped, so    *)
(* that it is in [0,1] after every update.                                 *)
(***************************************************************************)
\* the decide call of the step is for a round after 0 and outcomes are recorded
AdaptiveUpdateStep ==
    /\ DecideStep("Adaptive")
    /\ strategies'["Adaptive"].calls[Len(strategies'["Adaptive"].calls)].round_number > 0
    /\ strategies["Adaptive"].self.payoff_history # << >>

AdaptiveStartsAtHalf ==
    ("Adaptive" \in DOMAIN strategies /\ strategies["Adaptive"].calls = << >>) =>
        2 * strategies["Adaptive"].self.cooperation_probability = ProbScale

AdaptiveUpdateRule ==
    /\ AdaptiveStartsAtHalf
    /\ [][ AdaptiveUpdateStep =>
             LET self == strategies["Adaptive"].self
                 p    == self.cooperation_probability
                 q    == strategies'["Adaptive"].self.cooperation_probability
                 pay  == LastN(self.payoff_history, AdaptiveWindow)
                 opp  == LastN(self.opponent_history, AdaptiveWindow)
                 k    == CooperativeCount(opp)
             IN  /\ SumSeq(pay) > 3 * Len(pay) => (q > p \/ q = ProbScale)
                 /\ SumSeq(pay) <= 3 * Len(pay) =>
                       \* toward the rate k / Len(opp)
                       /\ k * ProbScale > p * Len(opp) => q > p
                       /\ k * ProbScale < p * Len(opp) => q < p
                 /\ 0 <= q /\ q <= ProbScale ]_vars

\* what holds: the probability is raised by learning_rate * 0.1 when the
\* average is above 3.0, changed by (rate - 0.5) * learning_rate when the
\* average is below 2.0, with rate the opponent's trailing cooperation rate,
\* and left as it is for every average from 2.0 to 3.0; then it is clamped
AdaptiveUpdateRuleDeadBand ==
    /\ AdaptiveStartsAtHalf
    /\ [][ AdaptiveUpdateStep =>
             LET self == strategies["Adaptive"].self
                 p    == self.cooperation_probability
                 q    == strategies'["Adaptive"].self.cooperation_probability
                 lr   == self.learning_rate10
                 pay  == LastN(self.payoff_history, AdaptiveWindow)
                 opp  == LastN(self.opponent_history, AdaptiveWindow)
                 k    == CooperativeCount(opp)
                 Clamped(x) == IF x < 0 THEN 0 ELSE IF x > ProbScale THEN ProbScale ELSE x
             IN  /\ SumSeq(pay) > 3 * Len(pay) =>
                       100 * q = 100 * Clamped(p + (lr * ProbScale) \div 100)
                 /\ SumSeq(pay) < 2 * Len(pay) =>
                       \* 20 n (q - p) = (2k - n) lr, in units of 1/ProbScale
                       \/ 20 * Len(opp) * (q - p) = (2 * k - Len(opp)) * lr * ProbScale
                       \/ q = 0 /\ 20 * Len(opp) * (0 - p) >= (2 * k - Len(opp)) * lr * ProbScale
                       \/ q = ProbScale
                          /\ 20 * Len(opp) * (ProbScale - p)
                                 <= (2 * k - Len(opp)) * lr * ProbScale
                 /\ (2 * Len(pay) <= SumSeq(pay) /\ SumSeq(pay) <= 3 * Len(pay)) =>
                       q = p
                 /\ 0 <= q /\ q <= ProbScale ]_vars

\* mutual cooperation was recorded (average 3.0, opponent's rate 1.0) and a
\* decide call for round 1 left the probability at 0.5
AdaptiveDeadBandWitness ==
    LET calls == CallsOn("Adaptive")
    IN  /\ Len(calls) = 2
        /\ calls[1].op = "update_history"
        /\ strategies["Adaptive"].self.payoff_history = <<3>>
        /\ strategies["Adaptive"].self.opponent_history = <<COOPERATE>>
        /\ calls[2].op = "decide" /\ calls[2].round_number = 1
        /\ 2 * strategies["Adaptive"].self.cooperation_probability = ProbScale

\* learning_rate 1.0 and a recorded loss against a defector: the first decide
\* call took the probability from 0.5 to 0.0, the second was clamped at 0.0
AdaptiveClampWitness ==
    LET calls == CallsOn("Adaptive")
    IN  /\ Len(calls) = 3
        /\ strategies["Adaptive"].self.learning_rate10 = 10
        /\ calls[1].op = "update_history"
        /\ strategies["Adaptive"].self.payoff_history = <<0>>
        /\ strategies["Adaptive"].self.opponent_history = <<DEFECT>>
        /\ calls[2].op = "decide" /\ calls[2].round_number = 1
        /\ calls[3].op = "decide" /\ calls[3].round_number = 2
        /\ strategies["Adaptive"].self.cooperation_probability = 0

(***************************************************************************)
(* SpecSingleGame: a coordinator with two or three registered agents on    *)
(* which run_single_game is called several times, with any game type and   *)
(* with lists of names that are registered or not.                         *)
(***************************************************************************)
\* agent_names and num_rounds of the explored run_single_game calls; "c" is
\* not registered on the coordinator with two agents
RequestedNames ==
    { <<"a", "b">>, <<"a", "c">>, <<"c", "a", "b">>, <<"a", "b", "c">>, <<"c">> }
SingleGameRounds == {1}

\* [self.agents[name] for name in agent_names if name in self.agents]
RegisteredAmong(agent_names, ag) ==
    SelectSeq(agent_names, LAMBDA n : n \in DOMAIN ag)

\* mutant: the length check looks at the requested names
TooFewRequested(present, agent_names) == Len(agent_names) < 2

\* if len(agents) < 2
TooFewAgents(present, agent_names) == Len(present) < 2

\* coordinator.run_single_game(game_type, agent_names, num_rounds), up to the
\* call of play_full_game
CallRunSingleGame ==
    /\ tour.pc = "idle"
    /\ ncalls < MaxTopCalls
    /\ ncalls' = ncalls + 1
    /\ \E game_type \in GameType, agent_names \in RequestedNames,
          num_rounds \in SingleGameRounds :
          LET present == RegisteredAmong(agent_names, agents)
              call    == [ op |-> "run_single_game", game_type |-> game_type,
                           agent_names |-> agent_names ]
          IN  IF TooFewAgents(present, agent_names)
              THEN /\ lastCall' = call @@ [ raised |-> TRUE, error |-> "ValueError" ]
                   /\ UNCHANGED <<games, match, tour>>
              ELSE /\ games' = [games EXCEPT ![game_type] = ResetGame(@)]
                   /\ match' = NewMatchCall(game_type, present, num_rounds)
                   /\ tour'  = [tour EXCEPT !.pc = "single"]
                   /\ lastCall' = call @@ [ raised |-> FALSE, error |-> "None" ]
    /\ UNCHANGED <<waiting, strategies, agents, registry, providers>>

\* run_single_game, lines 188-239: play_full_game returned, or raised and the
\* exception is raised again
EndSingleGame ==
    /\ tour.pc = "single"
    /\ match.pc \in {"done", "raised"}
    /\ lastCall' = [ lastCall EXCEPT
                        !.raised = (match.pc = "raised"),
                        !.error  = IF match.pc # "raised" THEN "None"
                                   ELSE IF match.game = PD THEN "ValueError"
                                   ELSE "KeyError" ]
    /\ tour'  = [tour EXCEPT !.pc = "idle"]
    /\ match' = NoMatch
    /\ UNCHANGED <<waiting, strategies, agents, registry, games, providers, ncalls>>

SingleGameInit ==
    /\ games    = InitializeGames
    /\ match    = NoMatch
    /\ lastCall = NoCall
    /\ ncalls   = 0
    /\ strategies = NoStrategies
    /\ waiting  = << >>
    /\ tour     = IdleTour([num_rounds |-> 0, num_repetitions |-> 0])
    /\ registry \in { <<"a", "b">>, <<"a", "b", "c">> }
    /\ agents   = [n \in Range(registry) |-> FreshAgentState]
    /\ providers = [n \in Range(registry) |->
                       IF n = "b" THEN "always_defect" ELSE "always_cooperate"]

SingleGameNext ==
    \/ CallRunSingleGame \/ EndSingleGame
    \/ BeginFullGame
    \/ PDStartRound \/ PDDecide \/ PDCommit \/ PDFinish
    \/ PGStartRound \/ PGAsk \/ PGCommit \/ PGFinish
    \/ KSStartRound \/ KSAsk \/ KSCommit \/ KSFinish

SpecSingleGame == SingleGameInit /\ [][SingleGameNext]_vars

(***************************************************************************)
(* C37: run_single_game ignores every requested name that is not in the    *)
(* registry and plays the game with the remaining registered agents.  It   *)
(* raises ValueError only when fewer than two requested names are          *)
(* registered, and in that case neither resets the game nor changes any    *)
(* AgentState.                                                             *)
(***************************************************************************)
RunSingleGameStep == ncalls' = ncalls + 1 /\ lastCall'.op = "run_single_game"

\* the call step: too few registered names raise and change nothing, and
\* otherwise the game is played by exactly the registered names, in the
\* order they were requested
RunSingleGameEntry ==
    [][ RunSingleGameStep =>
          LET present == SelectSeq(lastCall'.agent_names,
                                   LAMBDA n : n \in Range(registry))
          IN  IF Len(present) < 2
              THEN /\ lastCall'.raised /\ lastCall'.error = "ValueError"
                   /\ games' = games /\ agents' = agents /\ match' = match
              ELSE /\ ~ lastCall'.raised
                   /\ match'.players = present
                   /\ match'.game = lastCall'.game_type
                   /\ agents' = agents ]_vars

RegisteredRequested ==
    SelectSeq(lastCall.agent_names, LAMBDA n : n \in Range(registry))

RunSingleGameIgnoredWitness ==
    /\ lastCall.op = "run_single_game"
    /\ lastCall.agent_names = <<"c", "a", "b">>
    /\ "c" \notin Range(registry)
    /\ match.pc = "done"
    /\ match.players = <<"a", "b">>

\* three registered names were requested for a Prisoner's Dilemma: ValueError
\* after the reset of the game
RunSingleGamePDThreeWitness ==
    /\ lastCall.op = "run_single_game"
    /\ lastCall.raised
    /\ lastCall.game_type = PD
    /\ Len(RegisteredRequested) = 3
    /\ ncalls = 2
    /\ games[PD].results_history = << >>

(***************************************************************************)
(* C38: in the Public Goods and the Knowledge Sharing game with at least   *)
(* one participant the winner of the GameResult is never None: it is a     *)
(* participant with maximal cumulative payoff and, among several with the  *)
(* maximal payoff (all of them included), the earliest in the participants *)
(* list.  Only the Prisoner's Dilemma reports a tie as None.               *)
(***************************************************************************)
\* name is the earliest participant of the result with the largest payoff
EarliestBest(result, name) ==
    \E i \in 1..Len(result.participants) :
        /\ result.participants[i] = name
        /\ \A j \in 1..Len(result.participants) :
              result.payoffs[result.participants[j]] <= result.payoffs[name]
        /\ \A j \in 1..(i - 1) :
              result.payoffs[result.participants[j]] < result.payoffs[name]

WinnerOfResult ==
    match.pc = "done" =>
        LET result == match.result
        IN  IF match.game = PD
            THEN IF result.payoffs[result.participants[1]]
                      = result.payoffs[result.participants[2]]
                 THEN result.winner = "None"
                 ELSE EarliestBest(result, result.winner)
            ELSE /\ result.winner # "None"
                 /\ EarliestBest(result, result.winner)

\* a three-party Public Goods game in which the second and the third
\* participant share the largest payoff: the second is the winner
WinnerTieWitness ==
    /\ match.pc = "done"
    /\ match.game = PG
    /\ match.players = <<"a", "b", "c">>
    /\ match.result.payoffs["a"] < match.result.payoffs["b"]
    /\ match.result.payoffs["b"] = match.result.payoffs["c"]
    /\ match.result.winner = "b"

\* a Knowledge Sharing game in which every payoff is the same: the first
\* participant is the winner
WinnerAllEqualWitness ==
    /\ match.pc = "done"
    /\ match.game = KS
    /\ \A n \in Range(match.players) :
          match.result.payoffs[n] = match.result.payoffs[match.players[1]]
    /\ match.result.winner = match.players[1]

\* a tied Prisoner's Dilemma has no winner
WinnerPDTieWitness ==
    /\ match.pc = "done"
    /\ match.game = PD
    /\ match.result.payoffs["a"] = match.result.payoffs["b"]
    /\ match.result.winner = "None"

(***************************************************************************)
(* SpecBuiltinKS: one KnowledgeSharingGame.play_full_game call among the   *)
(* rule-based agents of game_agents.py, every lineup of the five classes.  *)
(***************************************************************************)
BuiltinKinds == {"cooperative", "competitive", "tit_for_tat", "adaptive", "random"}

BuiltinKSInit ==
    /\ agents    = [n \in Names |-> FreshAgentState]
    /\ registry  = NameOrder
    /\ providers \in [Names -> BuiltinKinds]
    /\ tour      = NoTour
    /\ lastCall  = NoCall
    /\ ncalls    = 0
    /\ strategies = NoStrategies
    /\ waiting  = << >>
    /\ games     = InitializeGames
    /\ \E players \in { <<"a", "b">>, <<"a", "b", "c">> }, num_rounds \in 1..GameRounds :
          match = NewMatchCall(KS, players, num_rounds)

BuiltinKSNext ==
    \/ BeginFullGame
    \/ KSStartRound \/ KSAsk \/ KSCommit \/ KSFinish

SpecBuiltinKS == BuiltinKSInit /\ [][BuiltinKSNext]_vars

\* what the seeding alone leaves in the knowledge base of the participant at
\* list position i after the given number of started rounds
SeededOnly(i, rounds) ==
    [r \in 1..(IF rounds < SeedBelow THEN rounds ELSE SeedBelow) |-> <<r, i - 1, 1>>]

TrustSubject == "a"
TrustPeers   == {"b", "c"}

TrustInit ==
    /\ agents   = [n \in {TrustSubject} |-> FreshAgentState]
    /\ registry = <<TrustSubject>>
    /\ games    = InitializeGames
    /\ match    = NoMatch
    /\ tour     = NoTour
    /\ providers = [n \in {TrustSubject} |-> "none"]
    /\ lastCall = NoCall
    /\ ncalls   = 0
    /\ strategies = NoStrategies
    /\ waiting  = << >>

\* state.update_trust(agent_id, cooperation, decay_rate)
CallUpdateTrust ==
    /\ ncalls < MaxTrustCalls
    /\ \E agent_id \in TrustPeers, cooperation \in BOOLEAN, d \in DecayRates :
          /\ agents' = [agents EXCEPT ![TrustSubject].trust_scores =
                           UpdateTrust(@, agent_id, cooperation, d)]
          /\ lastCall' = [ op |-> "update_trust", agent_id |-> agent_id,
                           cooperation |-> cooperation, decay_rate |-> d,
                           before |-> agents[TrustSubject] ]
    /\ ncalls' = ncalls + 1
    /\ UNCHANGED <<waiting, strategies, games, match, tour, providers, registry>>

\* agent.update_state(opponent_id, opponent_action, payoff, my_action)
CallUpdateState ==
    /\ ncalls < MaxTrustCalls
    /\ \E opponent_id \in TrustPeers, opponent_action \in AgentAction :
          /\ agents' = [agents EXCEPT ![TrustSubject] =
                           UpdateState(@, opponent_id, opponent_action,
                                       3 * PayScale, COOPERATE)]
          /\ lastCall' = [ op |-> "update_state", agent_id |-> opponent_id,
                           cooperation |-> IsCooperative(opponent_action),
                           decay_rate |-> DefaultDecay,
                           before |-> agents[TrustSubject] ]
    /\ ncalls' = ncalls + 1
    /\ UNCHANGED <<waiting, strategies, games, match, tour, providers, registry>>

TrustNext == CallUpdateTrust \/ CallUpdateState

SpecTrust == TrustInit /\ [][TrustNext]_vars

UpdateTrustContract ==
    lastCall.op = "update_trust" =>
        LET old  == lastCall.before.trust_scores
            new  == agents[TrustSubject].trust_scores
            id   == lastCall.agent_id
            s    == IF id \in DOMAIN old THEN old[id] ELSE Half
        IN  /\ DOMAIN new = DOMAIN old \cup {id}
            /\ new[id] = IF lastCall.cooperation
                         THEN (IF s + Tenth > One THEN One ELSE s + Tenth)
                         ELSE (IF s - 2 * Tenth < 0 THEN 0 ELSE s - 2 * Tenth)
            /\ \A p \in DOMAIN old \ {id} :
                   10 * new[p] = (10 - lastCall.decay_rate) * old[p]

\* an update of a peer that already has an entry, with decay rate 0.5, while
\* another peer holds a positive score that is decayed
UpdateTrustWitness ==
    /\ lastCall.op = "update_trust"
    /\ lastCall.decay_rate = 5
    /\ lastCall.agent_id \in DOMAIN lastCall.before.trust_scores
    /\ \E p \in DOMAIN lastCall.before.trust_scores \ {lastCall.agent_id} :
           /\ lastCall.before.trust_scores[p] > 0
           /\ agents[TrustSubject].trust_scores[p] < lastCall.before.trust_scores[p]

====
